---- MODULE Spec2Model ----
(***************************************************************************)
(* Risk-assessment pipeline of the mortgage loan application platform:     *)
(* run_pipeline (agents/pipeline.py), BaseAgent.analyze (agents/base.py),  *)
(* RiskAggregationAgent (agents/risk_aggregation.py), the rule scorers     *)
(* (worker/tasks/risk_assessment.py) and the simulated credit bureau       *)
(* (services/credit_bureau.py).                                            *)
(*                                                                         *)
(* Conventions.  Scores are points (0..100).  Weights are hundredths       *)
(* (0.12 is 12).  A weighted average is kept as the exact fraction         *)
(* [n |-> numerator, d |-> denominator] the code computes as a float.      *)
(* Money is whole dollars, interest rates are basis points (6.5% is 650).  *)
(* None is Python's None; numeric fields use the integers NoneNum and       *)
(* AbsentNum (a key the dictionary does not hold) for it.                   *)
(***************************************************************************)
EXTENDS Integers, Sequences, FiniteSets, TLC

VARIABLES
    pc,                 \* position of run_pipeline: start, running, scoring, collected, done
                        \* (scorer_call, scorer_done: a rule scorer called on its own)
    use_llm,            \* run_pipeline's use_llm argument
    max_parallel,       \* run_pipeline's max_parallel argument
    agent_instances,    \* the instantiated agents, in the order of the agents argument
    data,               \* the ApplicationData of the run
    credit_report_data, \* the credit_report argument of the rule scorers
    app_in_db,          \* whether the Application row is found on the use_llm=False path
    queue,              \* agents submitted to the executor and not yet started
    running,            \* agents whose analyze() is running on a worker thread
    completion,         \* what each completed agent returned or raised, by dimension name
    scorer_idx,         \* next entry of DIMENSION_SCORERS on the use_llm=False path
    dimension_results,  \* run_pipeline's dimension_results list
    llm_reply,          \* what call_llm_json gave the aggregator (None before, or not called)
    result,             \* the returned PipelineResult (None before the return)
    application,        \* the Application row the credit bureau is asked about
    today,              \* datetime.now(), as a day number
    credit_reports,     \* the reports pull_credit_report returned, one per attempt
    raised,             \* the exceptions raised so far inside the running call, in order
    app_status,         \* Application.status of the application
    jobs,               \* the run_risk_assessment jobs Celery holds, in the order enqueued
    assessments,        \* the RiskAssessment rows, in the order created
    clock,              \* time.time(), in seconds
    _rate_limits,       \* llm_gateway._rate_limits: provider -> list of timestamps
    threads,            \* the threads inside _check_rate_limit: position and locals
    admitted,           \* the timestamps of the calls _check_rate_limit let through
    llm_configs,        \* the LLMConfig table and settings.LLM_PROVIDER
    call                \* the running call_llm: its arguments and locals

vars == <<pc, use_llm, max_parallel, agent_instances, data, credit_report_data, app_in_db,
          queue, running, completion, scorer_idx, dimension_results, llm_reply, result,
          application, today, credit_reports, raised, app_status, jobs, assessments,
          clock, _rate_limits, threads, admitted, llm_configs, call>>

\* what the credit bureau reads and writes
bureau_vars == <<application, today, credit_reports>>

\* what the stepwise calls outside run_pipeline read and write
task_vars == <<app_status, jobs, assessments>>

gateway_vars == <<clock, _rate_limits, threads, admitted, llm_configs, call>>

idle_vars == <<task_vars, gateway_vars>>

other_vars == <<raised, idle_vars>>

\* the state of other_vars while none of those calls runs
TaskIdle ==
    /\ app_status = "draft"
    /\ jobs = <<>>
    /\ assessments = <<>>

OthersIdle ==
    /\ raised = <<>>
    /\ TaskIdle
    /\ clock = 0
    /\ _rate_limits = <<>>
    /\ threads = <<>>
    /\ admitted = <<>>
    /\ llm_configs = <<>>
    /\ call = <<>>

\* what run_pipeline reads and writes
pipeline_vars ==
    <<pc, use_llm, max_parallel, agent_instances, data, credit_report_data, app_in_db,
      queue, running, completion, scorer_idx, dimension_results, llm_reply, result>>

\* Python's None (JSON null) where the other values are strings
None == "None"

\* Python's None and an absent dictionary key where the other values are numbers:
\* two integers outside every range the model uses
NoneNum == 0 - 1000000

AbsentNum == 0 - 1000001

\* a value that is not a number (a string where a number is expected)
NotANumber == 0 - 1000002

\* d.get(key, default) for a numeric value read from a dictionary
Get(v, default) == IF v = AbsentNum THEN default ELSE v

\* Python truthiness of a number or None: `not x`
Falsy(v) == v = NoneNum \/ v = AbsentNum \/ v = 0

\* isinstance(v, (int, float))
IsNumber(v) == v # NoneNum /\ v # AbsentNum /\ v # NotANumber

\* ------------------------------------------------------------------------
\* Arithmetic and list helpers (Python built-ins the code uses)
\* ------------------------------------------------------------------------

Min(a, b) == IF a <= b THEN a ELSE b

Max(a, b) == IF a >= b THEN a ELSE b

\* the score as computed, without max(0, min(100, ...))
Clamp100_None(x) == x

\* max(0, min(100, x))
Clamp100(x) == Max(0, Min(100, x))

\* lst[:n]
Take(lst, n) == SubSeq(lst, 1, Min(n, Len(lst)))

RECURSIVE SumSeq(_)
SumSeq(lst) == IF lst = <<>> THEN 0 ELSE Head(lst) + SumSeq(Tail(lst))

\* a fraction n/d against an integer threshold (d > 0)
FracGE(f, k) == f.n >= k * f.d

Whole(x) == [n |-> x, d |-> 1]

\* ------------------------------------------------------------------------
\* AgentResult (agents/base.py)
\* ------------------------------------------------------------------------

AgentResult(dim, agent, score, weight, pos, risks, mit, err) ==
    [dimension_name |-> dim, agent_name |-> agent, score |-> score, weight |-> weight,
     positive_factors |-> pos, risk_factors |-> risks, mitigating_factors |-> mit,
     error |-> err]

\* AgentResult.weighted_score
weighted_score(r) == r.score * r.weight

\* AgentResult.succeeded
succeeded(r) == r.error = None

\* the succeeded results, in order: [r for r in dimension_results if r.succeeded]
RECURSIVE SucceededOf(_)
SucceededOf(results) ==
    IF results = <<>> THEN <<>>
    ELSE IF succeeded(Head(results)) THEN <<Head(results)>> \o SucceededOf(Tail(results))
    ELSE SucceededOf(Tail(results))

\* sum(r.weighted_score for r in dimension_results if r.succeeded)
RECURSIVE total_weighted(_)
total_weighted(results) ==
    IF results = <<>> THEN 0
    ELSE (IF succeeded(Head(results)) THEN weighted_score(Head(results)) ELSE 0)
         + total_weighted(Tail(results))

\* sum(r.weight for r in dimension_results if r.succeeded)
RECURSIVE total_weight(_)
total_weight(results) ==
    IF results = <<>> THEN 0
    ELSE (IF succeeded(Head(results)) THEN Head(results).weight ELSE 0)
         + total_weight(Tail(results))

\* the average with the `if r.succeeded` filters left out: over every result
WeightedAverage_AllResults(results) ==
    LET weights == [i \in 1..Len(results) |-> results[i].weight]
        weighted == [i \in 1..Len(results) |-> weighted_score(results[i])]
    IN IF SumSeq(weights) > 0
       THEN [n |-> SumSeq(weighted), d |-> SumSeq(weights)]
       ELSE Whole(50)

\* total_weighted / total_weight if total_weight > 0 else 50
WeightedAverage(results) ==
    IF total_weight(results) > 0
    THEN [n |-> total_weighted(results), d |-> total_weight(results)]
    ELSE Whole(50)

\* dim_scores = {r.dimension_name: r.score for r in results if r.succeeded};
\* dim_scores.get(name, default): a later result of the same name overwrites an earlier one
RECURSIVE DimScore(_, _, _)
DimScore(results, name, default) ==
    IF results = <<>> THEN default
    ELSE LET r == results[Len(results)]
         IN IF succeeded(r) /\ r.dimension_name = name THEN r.score
            ELSE DimScore(SubSeq(results, 1, Len(results) - 1), name, default)

\* ------------------------------------------------------------------------
\* Factor texts and the keyword search of _detect_recovery_trajectory
\* ------------------------------------------------------------------------

RecoveryKeywords ==
    {"recovery", "improving", "rebuilt", "restored", "clean recent", "on-time recent",
     "rehabilitated"}

\* the keywords of RecoveryKeywords that occur in factor.lower(), for the factor
\* texts of this model
KeywordsIn(factor) ==
    CASE factor = "Recovery trajectory: past derogatory marks with clean recent payments"
            -> {"recovery", "clean recent"}
      [] factor = "Clean recent payment history (12 months)" -> {"clean recent"}
      [] factor = "REBUILT credit after bankruptcy" -> {"rebuilt"}
      [] OTHER -> {}

_detect_recovery_trajectory(results) ==
    \E i \in 1..Len(results) :
        \E j \in 1..Len(results[i].positive_factors \o results[i].mitigating_factors) :
            KeywordsIn((results[i].positive_factors \o results[i].mitigating_factors)[j])
                \cap RecoveryKeywords # {}

\* ------------------------------------------------------------------------
\* Amortisation: payment = P * r(1+r)^n / ((1+r)^n - 1)
\* ------------------------------------------------------------------------

\* 100000 * r(1+r)^n / ((1+r)^n - 1) for the annual rates (basis points) and terms
\* (months) of this model, rounded to the nearest integer
AmortFactor(rate_bp, term) ==
    CASE rate_bp = 450 /\ term = 180 -> 765
      [] rate_bp = 450 /\ term = 360 -> 507
      [] rate_bp = 650 /\ term = 180 -> 871
      [] rate_bp = 650 /\ term = 360 -> 632
      [] rate_bp = 850 /\ term = 180 -> 985
      [] rate_bp = 850 /\ term = 360 -> 769

\* the monthly payment, in whole dollars
MonthlyPayment(loan, rate_bp, term) == (loan * AmortFactor(rate_bp, term)) \div 100000

\* sum(float(v) for v in monthly_debts.values() if isinstance(v, (int, float)))
RECURSIVE NumericSum(_)
NumericSum(values) ==
    IF values = <<>> THEN 0
    ELSE (IF IsNumber(Head(values)) THEN Head(values) ELSE 0) + NumericSum(Tail(values))

\* ------------------------------------------------------------------------
\* RiskAggregationAgent (agents/risk_aggregation.py)
\* ------------------------------------------------------------------------

\* stressed_dti > 50, with stressed_dti = (payment + debts) / (income * 0.80 / 12) * 100
StressedDtiOver50(payment, debts, annual_income) ==
    (payment + debts) * 100 * 12 * 10 > 50 * 8 * annual_income

_check_stress_test(d) ==
    IF Falsy(d.dti_ratio) \/ Falsy(d.loan_amount) THEN FALSE
    ELSE LET income0 == Get(d.employment_info.annual_income, 0)
             annual_income == IF Falsy(income0) THEN 0 ELSE income0
             rate == (IF Falsy(d.base_interest_rate) THEN 650 ELSE d.base_interest_rate) + 200
             term == IF Falsy(d.loan_term_months) THEN 360 ELSE d.loan_term_months
         IN IF annual_income <= 0 THEN FALSE
            ELSE IF ~(rate > 0 /\ term > 0) THEN FALSE
            ELSE StressedDtiOver50(MonthlyPayment(d.loan_amount, rate, term),
                                   NumericSum(d.financial_info.monthly_debts),
                                   annual_income)

_check_reserve_deficit(d) ==
    LET liquid0 == Get(d.financial_info.liquid_assets, 0)
        liquid_assets == IF Falsy(liquid0) THEN 0 ELSE liquid0
        down_payment == IF Falsy(d.down_payment) THEN 0 ELSE d.down_payment
        reserves_after_dp == Max(0, liquid_assets - down_payment)
        term == IF Falsy(d.loan_term_months) THEN 360 ELSE d.loan_term_months
    IN IF ~Falsy(d.loan_amount) /\ ~Falsy(d.base_interest_rate)
       THEN reserves_after_dp
                < 3 * (IF d.base_interest_rate > 0
                       THEN MonthlyPayment(d.loan_amount, d.base_interest_rate, term)
                       ELSE d.loan_amount \div term)
       ELSE FALSE

\* a derivation that answers "low" for every score
BandOf_Low(score) == "low"

\* the band thresholds of aggregate(): >= 80 low, >= 60 medium, >= 40 high, else critical
BandOf(score) ==
    IF FracGE(score, 80) THEN "low"
    ELSE IF FracGE(score, 60) THEN "medium"
    ELSE IF FracGE(score, 40) THEN "high"
    ELSE "critical"

valid_bands == {"low", "medium", "high", "critical"}

valid_recs == {"approve", "conditional_approve", "review", "deny"}

_apply_intelligent_overrides(parsed, results, d) ==
    LET overall_score == parsed.overall_score
        fraud_score == DimScore(results, "fraud_risk", 0)
        compensating_score == DimScore(results, "compensating_factors", 50)
        stress_test_fails == _check_stress_test(d)
        reserve_deficit == _check_reserve_deficit(d)
        conditions == parsed.conditions
    IN IF fraud_score >= 60
       THEN [parsed EXCEPT !.recommendation = "deny",
                           !.key_concerns = <<"Elevated fraud risk indicators detected">>
                                            \o parsed.key_concerns]
       ELSE IF FracGE(overall_score, 80)
       THEN IF stress_test_fails
            THEN [parsed EXCEPT !.recommendation = "conditional_approve",
                                !.conditions = conditions \o
                                    <<"Rate lock and income verification required before closing",
                                      "Escrow account required">>]
            ELSE [parsed EXCEPT !.recommendation = "approve", !.conditions = conditions]
       ELSE IF FracGE(overall_score, 60)
       THEN IF compensating_score >= 70 /\ _detect_recovery_trajectory(results)
            THEN [parsed EXCEPT !.recommendation = "conditional_approve",
                                !.conditions = conditions \o
                                    <<"Employment verification within 10 days of closing",
                                      "Additional documentation of income stability required">>]
            ELSE IF stress_test_fails \/ reserve_deficit
            THEN [parsed EXCEPT !.recommendation = "deny", !.conditions = conditions]
            ELSE [parsed EXCEPT !.recommendation = "review", !.conditions = conditions]
       ELSE IF FracGE(overall_score, 40)
       THEN IF compensating_score >= 75
            THEN [parsed EXCEPT !.recommendation = "review", !.conditions = conditions]
            ELSE [parsed EXCEPT !.recommendation = "deny", !.conditions = conditions]
       ELSE [parsed EXCEPT !.recommendation = "deny", !.conditions = conditions]

\* all_risks / all_positives: the first two factors of every result, in list order
RECURSIVE FirstTwoRisks(_)
FirstTwoRisks(results) ==
    IF results = <<>> THEN <<>>
    ELSE Take(Head(results).risk_factors, 2) \o FirstTwoRisks(Tail(results))

RECURSIVE FirstTwoPositives(_)
FirstTwoPositives(results) ==
    IF results = <<>> THEN <<>>
    ELSE Take(Head(results).positive_factors, 2) \o FirstTwoPositives(Tail(results))

\* the recommendation and band of _rule_based_aggregation
RuleBandRec(overall, fraud_score, compensating_score, stress_test_fails) ==
    IF fraud_score >= 60 THEN [band |-> "critical", rec |-> "deny", conditions |-> <<>>]
    ELSE IF FracGE(overall, 80)
    THEN IF stress_test_fails
         THEN [band |-> "low", rec |-> "conditional_approve",
               conditions |-> <<"Rate lock and income verification required">>]
         ELSE [band |-> "low", rec |-> "approve", conditions |-> <<>>]
    ELSE IF FracGE(overall, 60)
    THEN IF compensating_score >= 70
         THEN [band |-> "medium", rec |-> "conditional_approve",
               conditions |-> <<"Additional documentation required">>]
         ELSE IF stress_test_fails
         THEN [band |-> "medium", rec |-> "deny", conditions |-> <<>>]
         ELSE [band |-> "medium", rec |-> "review", conditions |-> <<>>]
    ELSE IF FracGE(overall, 40)
    THEN IF compensating_score >= 75
         THEN [band |-> "high", rec |-> "review", conditions |-> <<>>]
         ELSE [band |-> "high", rec |-> "deny", conditions |-> <<>>]
    ELSE [band |-> "critical", rec |-> "deny", conditions |-> <<>>]

\* error_msg = f" (AI unavailable: {error})" if error else ""
error_msg(error) == IF error = None THEN "" ELSE " (AI unavailable: " \o error \o ")"

\* the summary is "Rule-based assessment{error_msg}. Score: {overall:.1f}/100."; the
\* figure is left out of the text here, overall_score carries it
_rule_based_aggregation(results, d, error) ==
    LET overall == WeightedAverage(results)
        br == RuleBandRec(overall,
                          DimScore(results, "fraud_risk", 0),
                          DimScore(results, "compensating_factors", 50),
                          _check_stress_test(d))
    IN [overall_score |-> overall,
        risk_band |-> br.band,
        recommendation |-> br.rec,
        summary |-> "Rule-based assessment" \o error_msg(error) \o ". Score",
        key_strengths |-> Take(FirstTwoPositives(results), 5),
        key_concerns |-> Take(FirstTwoRisks(results), 5),
        conditions |-> br.conditions,
        confidence |-> 50,
        fallback |-> TRUE]

\* the validation of aggregate(): lines 138-157, on a reply whose overall_score float()
\* accepts
ValidateReply(parsed) ==
    LET score == Whole(Clamp100(Get(parsed.overall_score, 50)))
    IN [parsed EXCEPT !.overall_score = score,
                      !.risk_band = IF parsed.risk_band \notin valid_bands
                                    THEN BandOf(score) ELSE parsed.risk_band,
                      !.recommendation = IF parsed.recommendation \notin valid_recs
                                         THEN "review" ELSE parsed.recommendation]

\* float(parsed.get("overall_score", 50)) raises TypeError on null and ValueError on
\* a text that is no number
ReplyRaises(reply) ==
    reply.raised \/ reply.overall_score = NoneNum \/ reply.overall_score = NotANumber

\* str(e) of the exception the try block of aggregate raised on this reply
ErrorOf(reply) ==
    IF reply.raised
    THEN "All LLM providers failed. Tried: ['openai']. Last error: openai: timeout"
    ELSE IF reply.overall_score = NoneNum
    THEN "float() argument must be a string or a real number, not 'NoneType'"
    ELSE "could not convert string to float: '" \o reply.overall_score_text \o "'"

\* aggregate(data, dimension_results), given what call_llm_json did
aggregate(d, results, reply) ==
    IF ReplyRaises(reply)
    THEN _rule_based_aggregation(results, d, ErrorOf(reply))
    ELSE LET parsed == _apply_intelligent_overrides(ValidateReply(reply), results, d)
         IN [overall_score |-> parsed.overall_score,
             risk_band |-> parsed.risk_band,
             recommendation |-> parsed.recommendation,
             summary |-> parsed.summary,
             key_strengths |-> parsed.key_strengths,
             key_concerns |-> parsed.key_concerns,
             conditions |-> parsed.conditions,
             confidence |-> parsed.confidence,
             fallback |-> FALSE]

\* ------------------------------------------------------------------------
\* Rule scorers (worker/tasks/risk_assessment.py).  A scorer returns
\* [raised, score, positive_factors, risk_factors, mitigating_factors]; raised
\* stands for the TypeError / AttributeError a None field makes the code raise.
\* cr is credit_report_data: cr.present is FALSE for None.
\* ------------------------------------------------------------------------

Scored(score, pos, risks, mit) ==
    [raised |-> FALSE, score |-> score, positive_factors |-> pos, risk_factors |-> risks,
     mitigating_factors |-> mit]

ScorerRaised ==
    [raised |-> TRUE, score |-> 0, positive_factors |-> <<>>, risk_factors |-> <<>>,
     mitigating_factors |-> <<>>]

\* `x or 0`
OrZero(v) == IF Falsy(v) THEN 0 ELSE v

_score_credit_profile(app, cr) ==
    LET own == Get(app.financial_info.credit_score, 0)
        credit_score == IF cr.present /\ ~Falsy(cr.credit_score) THEN cr.credit_score ELSE own
        tier == IF credit_score >= 760 THEN Scored(95, <<"Excellent credit score (760+)">>, <<>>, <<>>)
                ELSE IF credit_score >= 700 THEN Scored(80, <<"Good credit score (700-759)">>, <<>>, <<>>)
                ELSE IF credit_score >= 660
                THEN Scored(65, <<"Fair credit score (660-699)">>,
                            <<"Credit score below preferred threshold of 700">>, <<>>)
                ELSE IF credit_score >= 620
                THEN Scored(45, <<>>, <<"Below-average credit score (620-659)">>,
                            <<"Score meets minimum FHA requirements">>)
                ELSE IF credit_score > 0 THEN Scored(25, <<>>, <<"Low credit score">>, <<>>)
                ELSE Scored(30, <<>>, <<"Credit score not provided">>, <<>>)
        s1 == IF app.declarations.has_bankruptcy THEN Max(tier.score - 20, 10) ELSE tier.score
        r1 == IF app.declarations.has_bankruptcy
              THEN tier.risk_factors \o <<"History of bankruptcy declared">> ELSE tier.risk_factors
        s2 == IF app.declarations.has_foreclosure THEN Max(s1 - 25, 10) ELSE s1
        r2 == IF app.declarations.has_foreclosure
              THEN r1 \o <<"History of foreclosure declared">> ELSE r1
        annual_income == OrZero(Get(app.employment_info.annual_income, 0))
        adjusted == annual_income >= 150000 /\ credit_score >= 620
    IN IF ~IsNumber(credit_score) THEN ScorerRaised
       ELSE Scored(IF adjusted
                   \* (annual_income - 100000) / 25000: whole for the incomes of this model
                   THEN Min(100, s2 + Min(8, (annual_income - 100000) \div 25000)) ELSE s2,
                   tier.positive_factors, r2,
                   IF adjusted
                   THEN tier.mitigating_factors \o <<"Income-adjusted: high income offsets credit concerns">>
                   ELSE tier.mitigating_factors)

\* len(account_types) over the dict tradelines
AccountTypes(tradelines) == {tradelines[i].account_type : i \in 1..Len(tradelines)}

_score_credit_history_depth(app, cr) ==
    IF ~cr.present THEN Scored(50, <<>>, <<"No credit bureau data available">>, <<>>)
    ELSE LET oldest_months == cr.oldest_account_months
             utilization == cr.credit_utilization
             age == IF oldest_months >= 15 * 12 THEN 25
                    ELSE IF oldest_months >= 10 * 12 THEN 20
                    ELSE IF oldest_months >= 5 * 12 THEN 10
                    ELSE IF oldest_months >= 2 * 12 THEN 0
                    ELSE 0 - 10
             avg == IF cr.avg_account_age_months >= 60 THEN 10 ELSE 0
             mix == IF Cardinality(AccountTypes(cr.tradelines)) >= 3 THEN 10 ELSE 0
             util == IF utilization <= 10 THEN 10
                     ELSE IF utilization <= 30 THEN 5
                     ELSE IF utilization >= 70 THEN 0 - 15
                     ELSE IF utilization >= 50 THEN 0 - 5
                     ELSE 0
         IN Scored(Clamp100(50 + age + avg + mix + util),
                   (IF age > 0 THEN <<"Credit history length">> ELSE <<>>)
                   \o (IF avg > 0 THEN <<"Strong average account age">> ELSE <<>>)
                   \o (IF mix > 0 THEN <<"Diverse credit mix">> ELSE <<>>)
                   \o (IF util > 0 THEN <<"Low utilization">> ELSE <<>>),
                   (IF age <= 0 THEN <<"Short credit history">> ELSE <<>>)
                   \o (IF Cardinality(AccountTypes(cr.tradelines)) = 1
                       THEN <<"Limited credit mix (single account type)">> ELSE <<>>)
                   \o (IF util < 0 THEN <<"High utilization">> ELSE <<>>),
                   <<>>)

\* recent_clean: no tradeline has a non-OK entry among its 12 most recent payments
RecentClean(tradelines, months) ==
    \A i \in 1..Len(tradelines) :
        \A j \in 1..Min(months, Len(tradelines[i].payment_history_24m)) :
            tradelines[i].payment_history_24m[j] = "OK"

_score_payment_history(app, cr) ==
    IF ~cr.present THEN Scored(50, <<>>, <<"No credit bureau data available">>, <<>>)
    ELSE LET on_time_pct == cr.on_time_payments_pct
             base == IF on_time_pct >= 99 THEN 95
                     ELSE IF on_time_pct >= 97 THEN 85
                     ELSE IF on_time_pct >= 95 THEN 75
                     ELSE IF on_time_pct >= 90 THEN 55
                     ELSE 30
             total_lates == cr.late_payments_30d + cr.late_payments_60d + cr.late_payments_90d
             penalty == (IF cr.late_payments_90d > 0 THEN cr.late_payments_90d * 8 ELSE 0)
                        + (IF cr.late_payments_60d > 0 THEN cr.late_payments_60d * 5 ELSE 0)
                        + (IF cr.late_payments_30d > 0 THEN cr.late_payments_30d * 2 ELSE 0)
             recent_clean == RecentClean(cr.tradelines, 12)
             aging == total_lates > 0 /\ recent_clean
             recovery == (app.declarations.has_bankruptcy \/ app.declarations.has_foreclosure)
                         /\ recent_clean
         IN Scored(Clamp100(base - penalty + (IF aging THEN 10 ELSE 0)
                            + (IF recovery THEN 12 ELSE 0)),
                   IF on_time_pct >= 95 THEN <<"Good payment history">> ELSE <<>>,
                   (IF on_time_pct < 95 THEN <<"Fair or poor payment history">> ELSE <<>>)
                   \o (IF cr.late_payments_90d > 0 THEN <<"payment(s) 90+ days late">> ELSE <<>>)
                   \o (IF cr.late_payments_60d > 0 THEN <<"payment(s) 60 days late">> ELSE <<>>),
                   (IF aging THEN <<"Clean recent payment history (12 months)">> ELSE <<>>)
                   \o (IF recovery
                       THEN <<"Recovery trajectory: past derogatory marks with clean recent payments">>
                       ELSE <<>>))

_score_income_stability(app) ==
    LET emp == app.employment_info
        emp_status == emp.employment_status
        years == OrZero(Get(emp.years_at_job, 0))
        status_pts == IF emp_status = "employed" THEN 15
                      ELSE IF emp_status = "self_employed" THEN 5
                      ELSE IF emp_status = "retired" THEN 10
                      ELSE 0
        tenure_pts == IF years >= 5 THEN 20 ELSE IF years >= 2 THEN 10 ELSE 0
        income == Get(emp.annual_income, 0)
        has_ratio == ~Falsy(app.loan_amount) /\ income > 0
        \* ratio = annual_income / loan_amount: >= 0.5, >= 0.25
        ratio_pts == IF ~has_ratio THEN 0
                     ELSE IF app.loan_amount > 0 /\ 2 * income >= app.loan_amount THEN 15
                     ELSE IF app.loan_amount > 0 /\ 4 * income >= app.loan_amount THEN 5
                     ELSE 0
    IN IF emp_status = None THEN ScorerRaised
       ELSE IF ~Falsy(app.loan_amount) /\ ~IsNumber(income) THEN ScorerRaised
       ELSE Scored(Min(50 + status_pts + tenure_pts + ratio_pts, 100),
                   (IF emp_status \in {"employed", "retired"} THEN <<"Stable income status">> ELSE <<>>)
                   \o (IF years >= 2 THEN <<"Stable employment">> ELSE <<>>)
                   \o (IF ratio_pts = 15 THEN <<"Strong income-to-loan ratio">> ELSE <<>>),
                   (IF emp_status = "self_employed"
                    THEN <<"Self-employed income may be variable">> ELSE <<>>)
                   \o (IF years > 0 /\ years < 2 THEN <<"Short tenure">> ELSE <<>>),
                   <<>>)

\* any(kw in job_title for kw in commission_keywords), for the job titles of this model
CommissionTitle(job_title) == job_title \in {"sales manager", "real estate agent"}

\* (employment.get("job_title") or "").lower(), for the job titles of this model
LowerTitle(job_title) ==
    CASE job_title = None -> ""
      [] job_title = "Sales Manager" -> "sales manager"
      [] job_title = "Software Engineer" -> "software engineer"
      [] OTHER -> job_title

_score_earning_potential(app, cr) ==
    LET emp == app.employment_info
        annual_income == OrZero(Get(emp.annual_income, 0))
        years_at_job == OrZero(Get(emp.years_at_job, 0))
        emp_status == IF emp.employment_status = None THEN "" ELSE emp.employment_status
        income_pts == IF annual_income >= 200000 THEN 20
                      ELSE IF annual_income >= 100000 THEN 15
                      ELSE IF annual_income >= 60000 THEN 5
                      ELSE 0
        tenure_pts == IF emp_status = "employed" /\ years_at_job >= 5 THEN 15
                      ELSE IF emp_status = "self_employed"
                      THEN (IF years_at_job >= 2 THEN 5 ELSE 0 - 10)
                      ELSE 0
        additional_income == OrZero(Get(app.financial_info.additional_income, 0))
        extra_pts == IF additional_income > 0 THEN 8 ELSE 0
        commission == CommissionTitle(LowerTitle(emp.job_title))
    IN IF ~IsNumber(annual_income) THEN ScorerRaised
       ELSE Scored(Clamp100(50 + income_pts + tenure_pts + extra_pts
                            - (IF commission THEN 5 ELSE 0)),
                   (IF annual_income >= 100000 THEN <<"Strong income">> ELSE <<>>)
                   \o (IF tenure_pts > 0 THEN <<"Tenure suggests career stability">> ELSE <<>>)
                   \o (IF extra_pts > 0 THEN <<"Diversified income sources">> ELSE <<>>),
                   (IF annual_income > 0 /\ annual_income < 60000 THEN <<"Modest income">> ELSE <<>>)
                   \o (IF tenure_pts < 0 THEN <<"Self-employed less than 2 years">> ELSE <<>>)
                   \o (IF commission THEN <<"Commission/variable income role">> ELSE <<>>),
                   <<>>)

_score_debt_to_income(app) ==
    LET dti == app.dti_ratio
    IN IF Falsy(dti) THEN Scored(50, <<>>, <<"Unable to calculate DTI">>, <<>>)
       ELSE IF dti <= 28 THEN Scored(95, <<"Excellent DTI">>, <<>>, <<>>)
       ELSE IF dti <= 36 THEN Scored(80, <<"Good DTI">>, <<>>, <<>>)
       ELSE IF dti <= 43 THEN Scored(60, <<>>, <<"DTI near limit">>, <<>>)
       ELSE IF dti <= 50
       THEN Scored(35, <<>>, <<"High DTI", "Back-end DTI exceeds 43% QM threshold">>, <<>>)
       ELSE Scored(15, <<>>, <<"Very high DTI", "Back-end DTI exceeds 43% QM threshold">>, <<>>)

\* (dp / pp) * 100 >= tenths / 10, for pp # 0
PctGE(dp, pp, tenths) ==
    IF pp > 0 THEN dp * 1000 >= tenths * pp ELSE dp * 1000 <= tenths * pp

_score_down_payment(app) ==
    LET dp == IF Falsy(app.down_payment) THEN 0 ELSE app.down_payment
        pp == Get(app.property_info.purchase_price, 0)
    IN IF Falsy(pp) \/ dp = 0 THEN Scored(50, <<>>, <<"Down payment data unavailable">>, <<>>)
       \* pct = (dp / pp) * 100 against 20, 10, 5 and 3.5
       ELSE IF PctGE(dp, pp, 200) THEN Scored(95, <<"Strong down payment">>, <<>>, <<>>)
       ELSE IF PctGE(dp, pp, 100) THEN Scored(75, <<"Moderate">>, <<>>, <<>>)
       ELSE IF PctGE(dp, pp, 50) THEN Scored(55, <<>>, <<"Low down payment">>, <<>>)
       ELSE IF PctGE(dp, pp, 35) THEN Scored(40, <<>>, <<"Minimum down payment">>, <<>>)
       ELSE Scored(20, <<>>, <<"Below minimum">>, <<>>)

_score_employment_history(app) ==
    LET emp == app.employment_info
        complete == emp.employer_name \notin {None, ""} /\ emp.job_title \notin {None, ""}
        employed == emp.employment_status = "employed"
        stable == employed /\ Get(emp.years_at_job, 0) >= 2
        documented == emp.previous_employer \notin {None, ""}
    IN IF employed /\ emp.years_at_job = NoneNum THEN ScorerRaised
       ELSE Scored(Min(50 + (IF complete THEN 10 ELSE 0) + (IF stable THEN 25 ELSE 0)
                          + (IF documented THEN 10 ELSE 0), 100),
                   (IF complete THEN <<"Complete employment info">> ELSE <<>>)
                   \o (IF stable THEN <<"Stable employment">> ELSE <<>>)
                   \o (IF documented THEN <<"History documented">> ELSE <<>>),
                   <<>>, <<>>)

_score_property_assessment(app) ==
    LET prop == app.property_info
        ptype == prop.property_type
        type_pts == IF ptype \in {"single_family", "townhouse"} THEN 20
                    ELSE IF ptype = "condo" THEN 15 ELSE 0
        usage_pts == IF prop.usage_type = "primary_residence" THEN 20 ELSE 0
        price == Get(prop.purchase_price, 0)
        price_pts == IF price >= 100000 THEN 10 ELSE 0
    IN IF ~IsNumber(price) THEN ScorerRaised
       ELSE Scored(Min(50 + type_pts + usage_pts + price_pts, 100),
                   (IF type_pts > 0 THEN <<"Standard property type">> ELSE <<>>)
                   \o (IF usage_pts > 0 THEN <<"Primary residence">> ELSE <<>>)
                   \o (IF price_pts > 0 THEN <<"Property value supports collateral">> ELSE <<>>),
                   IF prop.usage_type = "investment" THEN <<"Investment property">> ELSE <<>>,
                   <<>>)

\* the high-severity entries of fraud_alerts
HighAlerts(fraud_alerts) == {i \in 1..Len(fraud_alerts) : fraud_alerts[i] = "high"}

\* the non-mortgage entries of inquiries
NonMortgage(inquiries) == {i \in 1..Len(inquiries) : inquiries[i] # "mortgage"}

_score_fraud_risk(app, cr) ==
    IF ~cr.present
    THEN Scored(70, <<"No fraud indicators without bureau data">>, <<>>, <<>>)
    ELSE LET fraud_score == cr.fraud_score
             base == IF fraud_score >= 60 THEN 15
                     ELSE IF fraud_score >= 40 THEN 45
                     ELSE IF fraud_score >= 20 THEN 70
                     ELSE 90
             high == Cardinality(HighAlerts(cr.fraud_alerts))
             util == cr.credit_utilization > 70
             seeking == Cardinality(NonMortgage(cr.inquiries)) > 3
             risks == (IF fraud_score >= 20 THEN <<"Fraud indicators in bureau score">> ELSE <<>>)
                      \o [i \in 1..high |-> "[HIGH] fraud alert"]
                      \o (IF util THEN <<"High utilization indicates potential debt accumulation">>
                          ELSE <<>>)
                      \o (IF seeking THEN <<"non-mortgage inquiries">> ELSE <<>>)
         IN Scored(Clamp100(base - high * 15 - (IF util THEN 10 ELSE 0)
                            - (IF seeking THEN 10 ELSE 0)),
                   (IF fraud_score < 20 THEN <<"Low fraud risk">> ELSE <<>>)
                   \o (IF risks = <<>> THEN <<"No fraud indicators detected">> ELSE <<>>),
                   risks, <<>>)

_score_compensating_factors(app, cr) ==
    LET dp == IF Falsy(app.down_payment) THEN 0 ELSE app.down_payment
        pp == Get(app.property_info.purchase_price, 0)
        has_pct == ~Falsy(pp) /\ dp # 0
        \* dp_pct = dp / pp * 100 against 25 and 20
        dp_pts == IF has_pct /\ PctGE(dp, pp, 250) THEN 10
                  ELSE IF has_pct /\ PctGE(dp, pp, 200) THEN 6
                  ELSE 0
        annual_income == OrZero(Get(app.employment_info.annual_income, 0))
        years_at_job == OrZero(Get(app.employment_info.years_at_job, 0))
        liquid_assets == OrZero(Get(app.financial_info.liquid_assets, 0))
        dti == app.dti_ratio
        loan_amount == IF Falsy(app.loan_amount) THEN 0 ELSE app.loan_amount
        monthly_payment == IF loan_amount > 0 THEN MonthlyPayment(loan_amount, 650, 360) ELSE 0
        reserves_after_dp == Max(0, liquid_assets - dp)
        \* months_of_reserves = reserves_after_dp / monthly_payment against 12, 6 and 3
        reserve_pts == IF monthly_payment > 0 /\ reserves_after_dp >= 12 * monthly_payment THEN 10
                       ELSE IF monthly_payment > 0 /\ reserves_after_dp >= 6 * monthly_payment THEN 6
                       ELSE IF monthly_payment > 0 /\ reserves_after_dp >= 3 * monthly_payment THEN 2
                       ELSE IF monthly_payment > 0 THEN 0 - 10
                       ELSE 0
        income_pts == IF annual_income > 0 /\ monthly_payment > 0
                         /\ annual_income >= 3 * 12 * monthly_payment THEN 8 ELSE 0
        dti_pts == IF ~Falsy(dti) /\ dti <= 28 THEN 6 ELSE 0
        tenure_pts == IF years_at_job >= 5 THEN 5 ELSE 0
        recovery == (app.declarations.has_bankruptcy \/ app.declarations.has_foreclosure)
                    /\ cr.present /\ RecentClean(cr.tradelines, 24) /\ cr.tradelines # <<>>
        stressed == annual_income > 0 /\ loan_amount > 0
        stressed_payment == MonthlyPayment(loan_amount, 850, 360)
        total_debts == NumericSum(app.financial_info.monthly_debts)
        \* stressed_dti = (stressed_payment + total_debts) / (annual_income * 0.80 / 12) * 100
        passes == stressed /\ (stressed_payment + total_debts) * 100 * 12 * 10 <= 43 * 8 * annual_income
        fails == stressed /\ StressedDtiOver50(stressed_payment, total_debts, annual_income)
    IN Scored(Clamp100(50 + dp_pts + reserve_pts + income_pts + dti_pts + tenure_pts
                       + (IF recovery THEN 12 ELSE 0)
                       + (IF passes THEN 8 ELSE IF fails THEN 0 - 8 ELSE 0)),
              (IF dp_pts > 0 THEN <<"Large down payment">> ELSE <<>>)
              \o (IF reserve_pts >= 6 THEN <<"Good reserves">> ELSE <<>>)
              \o (IF income_pts > 0 THEN <<"Income covers annual mortgage obligation">> ELSE <<>>)
              \o (IF dti_pts > 0 THEN <<"Conservative DTI">> ELSE <<>>)
              \o (IF tenure_pts > 0 THEN <<"Employment stability">> ELSE <<>>)
              \o (IF recovery
                  THEN <<"Recovery trajectory: past derogatory marks with clean recent payments">>
                  ELSE <<>>)
              \o (IF passes THEN <<"Passes stress test">> ELSE <<>>),
              (IF reserve_pts < 0 THEN <<"Thin reserves">> ELSE <<>>)
              \o (IF fails THEN <<"Fails stress test">> ELSE <<>>),
              <<>>)

\* DIMENSION_SCORERS, in the insertion order of the dict
DimensionNames ==
    <<"credit_profile", "credit_history_depth", "payment_history", "income_stability",
      "earning_potential", "debt_to_income", "down_payment", "employment_history",
      "property_assessment", "fraud_risk", "compensating_factors">>

DIMENSION_SCORERS(dim_name, app, cr) ==
    CASE dim_name = "credit_profile" -> _score_credit_profile(app, cr)
      [] dim_name = "credit_history_depth" -> _score_credit_history_depth(app, cr)
      [] dim_name = "payment_history" -> _score_payment_history(app, cr)
      [] dim_name = "income_stability" -> _score_income_stability(app)
      [] dim_name = "earning_potential" -> _score_earning_potential(app, cr)
      [] dim_name = "debt_to_income" -> _score_debt_to_income(app)
      [] dim_name = "down_payment" -> _score_down_payment(app)
      [] dim_name = "employment_history" -> _score_employment_history(app)
      [] dim_name = "property_assessment" -> _score_property_assessment(app)
      [] dim_name = "fraud_risk" -> _score_fraud_risk(app, cr)
      [] dim_name = "compensating_factors" -> _score_compensating_factors(app, cr)

\* DIMENSION_WEIGHTS, in hundredths
DIMENSION_WEIGHTS(dim_name) ==
    CASE dim_name = "credit_profile" -> 12
      [] dim_name = "credit_history_depth" -> 10
      [] dim_name = "payment_history" -> 12
      [] dim_name = "income_stability" -> 12
      [] dim_name = "earning_potential" -> 8
      [] dim_name = "debt_to_income" -> 13
      [] dim_name = "down_payment" -> 8
      [] dim_name = "employment_history" -> 5
      [] dim_name = "property_assessment" -> 5
      [] dim_name = "fraud_risk" -> 5
      [] dim_name = "compensating_factors" -> 10
      [] OTHER -> 10

\* credit_report_data = None
NoCreditReport ==
    [present |-> FALSE, credit_score |-> 0, oldest_account_months |-> 0,
     avg_account_age_months |-> 0, credit_utilization |-> 0, tradelines |-> <<>>,
     on_time_payments_pct |-> 100, late_payments_30d |-> 0, late_payments_60d |-> 0,
     late_payments_90d |-> 0, fraud_score |-> 0, fraud_alerts |-> <<>>, inquiries |-> <<>>]

\* ------------------------------------------------------------------------
\* Simulated credit bureau (services/credit_bureau.py).  Dates are day
\* numbers; a float the generator draws is drawn as a whole number of the
\* unit it is used in (percent, dollars); rates and percentages are tenths.
\* ------------------------------------------------------------------------

\* _seeded_rng: the seed sha256 gives each application id of this model
Seed(application_id) ==
    CASE application_id = "app-1" -> 17
      [] application_id = "app-2" -> 4242
      [] application_id = "app-3" -> 907
      [] OTHER -> 1

\* random.Random(seed): the generator is its seed and the number of draws made
_seeded_rng(application_id) == [seed |-> Seed(application_id), k |-> 0]

\* The next output of the generator: a fixed function of the seed and of the number
\* of draws made, standing for the Mersenne Twister stream of random.Random(seed).
Bits(rng) == (rng.seed * 131 + rng.k * 7919 + rng.k * rng.k * 17) % 100003

\* the generator after n draws
Skip(rng, n) == [rng EXCEPT !.k = @ + n]

\* rng.randint(lo, hi), and rng.uniform(lo, hi) in whole units
randint(rng, lo, hi) == lo + (Bits(rng) % (hi - lo + 1))

\* rng.choice(options)
choice(rng, options) == options[1 + (Bits(rng) % Len(options))]

\* rng.random() < permille / 1000
random_below(rng, permille) == Bits(rng) % 1000 < permille

\* a value together with the generator after the draws that produced it
Drawn(value, rng) == [value |-> value, rng |-> rng]

\* list.append in a loop: item, then what the rest of the loop drew
Prepend(item, rest) == Drawn(<<item>> \o rest.value, rest.rng)

\* a list of the one item drawn
Single(item) == Drawn(<<item.value>>, item.rng)

\* list.extend: items, then what the rest of the loop drew
Extend(items, rest) == Drawn(items \o rest.value, rest.rng)

\* the base score returned as it is
ClampScore_None(base_score) == base_score

\* max(300, min(850, base_score))
ClampScore(base_score) == Max(300, Min(850, base_score))

_derive_credit_score(self_reported, declarations, rng) ==
    LET valid == IsNumber(self_reported) /\ self_reported > 0
        base0 == IF valid THEN self_reported + randint(rng, 0 - 30, 15)
                 ELSE randint(rng, 580, 720)
        r1 == Skip(rng, 1)
        base1 == IF declarations.has_bankruptcy THEN base0 - randint(r1, 40, 80) ELSE base0
        r2 == IF declarations.has_bankruptcy THEN Skip(r1, 1) ELSE r1
        base2 == IF declarations.has_foreclosure THEN base1 - randint(r2, 50, 90) ELSE base1
        r3 == IF declarations.has_foreclosure THEN Skip(r2, 1) ELSE r2
        base3 == IF declarations.has_judgments THEN base2 - randint(r3, 20, 40) ELSE base2
        r4 == IF declarations.has_judgments THEN Skip(r3, 1) ELSE r3
        base4 == IF declarations.has_delinquent_debt THEN base3 - randint(r4, 15, 35) ELSE base3
        r5 == IF declarations.has_delinquent_debt THEN Skip(r4, 1) ELSE r4
    IN Drawn(ClampScore(base4), r5)

\* late_prob of _generate_payment_history, per thousand
LateProb(credit_score) ==
    IF credit_score >= 760 THEN 5
    ELSE IF credit_score >= 700 THEN 20
    ELSE IF credit_score >= 660 THEN 60
    ELSE IF credit_score >= 620 THEN 120
    ELSE 200

\* the loop of _generate_payment_history over range(months)
RECURSIVE PaymentMonths(_, _, _)
PaymentMonths(late_prob, rng, months) ==
    IF months <= 0 THEN Drawn(<<>>, rng)
    ELSE LET late == random_below(rng, late_prob)
             severity_roll == Bits(Skip(rng, 1)) % 100
             entry == IF ~late THEN "OK"
                      ELSE IF severity_roll < 60 THEN "30"
                      ELSE IF severity_roll < 85 THEN "60"
                      ELSE "90"
         IN Prepend(entry,
                    PaymentMonths(late_prob, Skip(rng, IF late THEN 2 ELSE 1), months - 1))

_generate_payment_history(credit_score, rng, months) ==
    PaymentMonths(LateProb(credit_score), rng, months)

\* CREDITOR_NAMES.get(acct_type, ["Generic Lender"])
CREDITOR_NAMES(acct_type) ==
    CASE acct_type = "revolving" -> <<"Chase", "Capital One", "Discover", "Citi", "Amex">>
      [] acct_type = "installment" -> <<"Toyota Financial", "Ford Motor Credit", "Ally Financial">>
      [] acct_type = "student_loan" -> <<"Nelnet", "Great Lakes", "FedLoan">>
      [] acct_type = "mortgage" -> <<"Wells Fargo", "Quicken Loans", "US Bank">>
      [] OTHER -> <<"Generic Lender">>

\* debt_mapping.get(debt_key, ("installment", title of the key))
debt_mapping(debt_key) ==
    CASE debt_key \in {"car_loan", "auto_loan"} -> <<"installment", "Auto Loan">>
      [] debt_key \in {"student_loans", "student_loan"} -> <<"student_loan", "Student Loan">>
      [] debt_key \in {"credit_cards", "credit_card"} -> <<"revolving", "Credit Card">>
      [] debt_key = "personal_loan" -> <<"installment", "Personal Loan">>
      [] debt_key = "other" -> <<"installment", "Other Installment">>
      [] OTHER -> <<"installment", debt_key>>

\* the dataclass Tradeline
BureauTradeline(account_type, creditor, opened_date, credit_limit, current_balance, monthly_payment, status, payment_history_24m) ==
    [account_type |-> account_type, creditor |-> creditor, opened_date |-> opened_date,
     credit_limit |-> credit_limit, current_balance |-> current_balance,
     monthly_payment |-> monthly_payment, status |-> status,
     payment_history_24m |-> payment_history_24m]

\* a tradeline with the payment history drawn for it
WithHistory(tradeline, history) ==
    Drawn([tradeline EXCEPT !.payment_history_24m = history.value], history.rng)

\* one credit card tradeline: the body of `for i in range(num_cards)`
CardTradeline(label, i, per_card_payment, credit_score, rng, now) ==
    LET creditor == choice(rng, CREDITOR_NAMES("revolving"))
        months_old == randint(Skip(rng, 1), 12, 120)
        opened == now - months_old * 30
        util_pct == IF credit_score >= 740 THEN randint(Skip(rng, 2), 5, 25)
                    ELSE IF credit_score >= 670 THEN randint(Skip(rng, 2), 15, 45)
                    ELSE randint(Skip(rng, 2), 40, 85)
        balance == per_card_payment * randint(Skip(rng, 3), 8, 20)
        limit == IF util_pct > 0 THEN (balance * 100) \div util_pct ELSE balance * 4
    IN WithHistory(BureauTradeline("revolving", <<creditor, label, i + 1>>, opened, limit,
                                   balance, per_card_payment, "open", <<>>),
                   _generate_payment_history(credit_score, Skip(rng, 4), 24))

\* the loop `for i in range(num_cards)`, from card i on
RECURSIVE CardTradelines(_, _, _, _, _, _, _)
RECURSIVE CardsAfter(_, _, _, _, _, _, _)
CardTradelines(label, i, num_cards, per_card_payment, credit_score, rng, now) ==
    IF i >= num_cards THEN Drawn(<<>>, rng)
    ELSE CardsAfter(label, i, num_cards, per_card_payment, credit_score,
                    CardTradeline(label, i, per_card_payment, credit_score, rng, now), now)

\* card i appended, and the cards after it drawn from the generator it leaves
CardsAfter(label, i, num_cards, per_card_payment, credit_score, card, now) ==
    Prepend(card.value,
            CardTradelines(label, i + 1, num_cards, per_card_payment, credit_score, card.rng,
                           now))

\* the else branch: one installment or student-loan tradeline
LoanTradeline(acct_type, label, payment_amount, credit_score, rng, now) ==
    LET creditor == choice(rng, CREDITOR_NAMES(acct_type))
        months_old == randint(Skip(rng, 1), 6, 72)
        opened == now - months_old * 30
        original_term == randint(Skip(rng, 2), 36, 120)
        remaining_months == Max(1, original_term - months_old)
        balance == (payment_amount * remaining_months * 9) \div 10
    IN WithHistory(BureauTradeline(acct_type, <<creditor, label>>, opened, NoneNum, balance,
                                   payment_amount, "open", <<>>),
                   _generate_payment_history(credit_score, Skip(rng, 3), Min(24, months_old)))

\* the loop over monthly_debts.items(); a debt is [key, amount]
RECURSIVE DebtTradelines(_, _, _, _)
RECURSIVE DebtsAfter(_, _, _, _)
DebtTradelines(monthly_debts, credit_score, rng, now) ==
    IF monthly_debts = <<>> THEN Drawn(<<>>, rng)
    ELSE LET debt == Head(monthly_debts)
             mapped == debt_mapping(debt.key)
             num_cards == randint(rng, 1, 3)
         IN DebtsAfter(monthly_debts, credit_score,
                       IF ~IsNumber(debt.amount) \/ debt.amount <= 0 THEN Drawn(<<>>, rng)
                       ELSE IF mapped[1] = "revolving"
                       THEN CardTradelines(mapped[2], 0, num_cards, debt.amount \div num_cards,
                                           credit_score, Skip(rng, 1), now)
                       ELSE Single(LoanTradeline(mapped[1], mapped[2], debt.amount,
                                                 credit_score, rng, now)),
                       now)

\* the tradelines of the first debt, and those of the debts after it
DebtsAfter(monthly_debts, credit_score, these, now) ==
    Extend(these.value, DebtTradelines(Tail(monthly_debts), credit_score, these.rng, now))

\* one closed tradeline of the loop `while len(tradelines) < 3`
ClosedTradeline(credit_score, rng, now) ==
    LET acct_type == choice(rng, <<"revolving", "installment">>)
        creditor == choice(Skip(rng, 1), CREDITOR_NAMES(acct_type))
        months_old == randint(Skip(rng, 2), 24, 96)
        opened == now - months_old * 30
        revolving == acct_type = "revolving"
        limit == IF revolving THEN randint(Skip(rng, 3), 1000, 15000) ELSE NoneNum
        payment == IF revolving
                   THEN (((limit * randint(Skip(rng, 4), 0, 30)) \div 100) * 3) \div 100
                   ELSE randint(Skip(rng, 3), 100, 500)
        balance == IF revolving THEN (limit * randint(Skip(rng, 4), 0, 30)) \div 100
                   ELSE payment * randint(Skip(rng, 4), 12, 48)
    IN WithHistory(BureauTradeline(acct_type, <<creditor, "(Closed)">>, opened, limit, balance,
                                   payment, "closed", <<>>),
                   _generate_payment_history(credit_score, Skip(rng, 5), 24))

\* the loop `while len(tradelines) < 3`
RECURSIVE FillTradelines(_, _, _)
FillTradelines(tradelines, credit_score, now) ==
    IF Len(tradelines.value) >= 3 THEN tradelines
    ELSE FillTradelines(Extend(tradelines.value,
                               Single(ClosedTradeline(credit_score, tradelines.rng, now))),
                        credit_score, now)

_generate_tradelines(financial_info, credit_score, rng, now) ==
    FillTradelines(DebtTradelines(financial_info.monthly_debts, credit_score, rng, now),
                   credit_score, now)

\* the dataclass PublicRecord
PublicRecord(record_type, filed_date, status, amount) ==
    [record_type |-> record_type, filed_date |-> filed_date, status |-> status,
     amount |-> amount]

_generate_public_records(declarations, rng, now) ==
    LET bankruptcy ==
            IF declarations.has_bankruptcy
            THEN Drawn(<<PublicRecord("bankruptcy", now - randint(rng, 2, 8) * 365,
                                      IF randint(rng, 2, 8) >= 2 THEN "discharged" ELSE "active",
                                      randint(Skip(rng, 1), 20000, 150000))>>,
                       Skip(rng, 2))
            ELSE Drawn(<<>>, rng)
        r1 == bankruptcy.rng
        foreclosure ==
            IF declarations.has_foreclosure
            THEN Drawn(<<PublicRecord("foreclosure", now - randint(r1, 3, 10) * 365, "completed",
                                      randint(Skip(r1, 1), 100000, 400000))>>,
                       Skip(r1, 2))
            ELSE Drawn(<<>>, r1)
        r2 == foreclosure.rng
        judgment ==
            IF declarations.has_judgments
            THEN Drawn(<<PublicRecord("judgment", now - randint(r2, 1, 6) * 365,
                                      choice(Skip(r2, 1), <<"satisfied", "active">>),
                                      randint(Skip(r2, 2), 2000, 50000))>>,
                       Skip(r2, 3))
            ELSE Drawn(<<>>, r2)
    IN Drawn(bankruptcy.value \o foreclosure.value \o judgment.value, judgment.rng)

\* the dataclass Inquiry
Inquiry(date, creditor, inquiry_type) ==
    [date |-> date, creditor |-> creditor, inquiry_type |-> inquiry_type]

\* the loop `for _ in range(num - 1)` of _generate_inquiries
RECURSIVE OtherInquiries(_, _, _)
OtherInquiries(count, rng, now) ==
    IF count <= 0 THEN Drawn(<<>>, rng)
    ELSE LET days_ago == randint(rng, 7, 180)
             creditor == choice(Skip(rng, 1),
                                <<"Auto Dealer", "Bank of America", "Discover", "SoFi", "Marcus">>)
             inquiry_type == choice(Skip(rng, 2), <<"auto", "credit_card", "other">>)
         IN Prepend(Inquiry(now - days_ago, creditor, inquiry_type),
                    OtherInquiries(count - 1, Skip(rng, 3), now))

_generate_inquiries(rng, now) ==
    LET num == randint(rng, 1, 4)
        days_ago == randint(Skip(rng, 1), 1, 14)
    IN Prepend(Inquiry(now - days_ago, "Mortgage Lender", "mortgage"),
               OtherInquiries(num - 1, Skip(rng, 2), now))

\* the loop `for _ in range(num)` of _generate_collections
RECURSIVE CollectionAccounts(_, _, _)
CollectionAccounts(count, rng, now) ==
    IF count <= 0 THEN Drawn(<<>>, rng)
    ELSE LET account ==
                [agency |-> choice(rng, <<"IC System", "Midland Credit", "Portfolio Recovery",
                                          "LVNV Funding">>),
                 original_creditor |-> choice(Skip(rng, 1),
                                              <<"Medical Center", "Utility Co", "Telecom">>),
                 amount |-> randint(Skip(rng, 2), 200, 5000),
                 status |-> choice(Skip(rng, 3), <<"open", "paid", "settled">>),
                 reported_date |-> now - randint(Skip(rng, 4), 90, 720)]
         IN Prepend(account, CollectionAccounts(count - 1, Skip(rng, 5), now))

_generate_collections(declarations, credit_score, rng, now) ==
    IF declarations.has_delinquent_debt \/ credit_score < 580
    THEN CollectionAccounts(randint(rng, 1, 3), Skip(rng, 1), now)
    ELSE Drawn(<<>>, rng)

\* the dataclass FraudAlert, without its description
FraudAlert(alert_type, severity) == [alert_type |-> alert_type, severity |-> severity]

\* abs(x)
Abs(x) == IF x < 0 THEN 0 - x ELSE x

_assess_fraud(financial_info, employment_info, declarations, credit_score, rng) ==
    LET annual_income == OrZero(Get(employment_info.annual_income, 0))
        years_at_job == OrZero(Get(employment_info.years_at_job, 0))
        implausible == annual_income > 200000 /\ years_at_job < 2
        missing_fields == (IF Falsy(financial_info.credit_score) THEN 1 ELSE 0)
                          + (IF Falsy(financial_info.total_assets) THEN 1 ELSE 0)
                          + (IF Falsy(employment_info.annual_income) THEN 1 ELSE 0)
        incomplete == missing_fields >= 2
        simulated_recent_pulls == randint(rng, 0, 5)
        velocity == simulated_recent_pulls > 3
        identity == random_below(Skip(rng, 1), 30)
        self_reported == financial_info.credit_score
        discrepancy == ~Falsy(self_reported) /\ IsNumber(self_reported)
                       /\ Abs(self_reported - credit_score) > 50
        noise == randint(Skip(rng, 2), 0, 8)
        fraud_score == (IF implausible THEN 15 ELSE 0) + (IF incomplete THEN 10 ELSE 0)
                       + (IF velocity THEN 20 ELSE 0) + (IF identity THEN 30 ELSE 0)
                       + (IF discrepancy THEN 10 ELSE 0) + noise
        alerts == (IF implausible THEN <<FraudAlert("income_plausibility", "medium")>> ELSE <<>>)
                  \o (IF incomplete THEN <<FraudAlert("data_completeness", "low")>> ELSE <<>>)
                  \o (IF velocity THEN <<FraudAlert("velocity_check", "high")>> ELSE <<>>)
                  \o (IF identity THEN <<FraudAlert("identity_flag", "high")>> ELSE <<>>)
                  \o (IF discrepancy THEN <<FraudAlert("score_discrepancy", "medium")>> ELSE <<>>)
    IN Drawn([alerts |-> alerts, fraud_score |-> Clamp100(fraud_score)], Skip(rng, 3))

\* the five factors of _generate_score_factors, by the branch that words each;
\* utilization and on_time_pct in tenths of a percent
_generate_score_factors(credit_score, utilization, on_time_pct, oldest_months, public_records, total_lates) ==
    <<IF on_time_pct >= 990 THEN "Excellent payment history"
      ELSE IF on_time_pct >= 950 THEN "Good payment history"
      ELSE "Payment history shows late payment(s)",
      IF utilization <= 100 THEN "Very low credit utilization"
      ELSE IF utilization <= 300 THEN "Good credit utilization"
      ELSE IF utilization <= 500 THEN "Moderate credit utilization"
      ELSE "High credit utilization",
      IF oldest_months >= 120 THEN "Long credit history"
      ELSE IF oldest_months >= 60 THEN "Moderate credit history length"
      ELSE "Short credit history",
      IF public_records # <<>> THEN "Public records present"
      ELSE "No derogatory public records found",
      IF credit_score >= 740 THEN "Score in super-prime tier (740+)"
      ELSE IF credit_score >= 670 THEN "Score in prime tier (670-739)"
      ELSE IF credit_score >= 580 THEN "Score in near-prime tier (580-669)"
      ELSE "Score in sub-prime tier (below 580)">>

\* round(a / b) for a >= 0 and b > 0: to the nearest whole, a tie to the even one
RoundDiv(a, b) ==
    LET q == a \div b
        r == a % b
    IN IF 2 * r > b THEN q + 1
       ELSE IF 2 * r < b THEN q
       ELSE IF q % 2 = 0 THEN q ELSE q + 1

\* how many entries of the payment histories are among kinds
CountPayments(tradelines, kinds) ==
    SumSeq([i \in 1..Len(tradelines) |->
                Cardinality({j \in 1..Len(tradelines[i].payment_history_24m) :
                                tradelines[i].payment_history_24m[j] \in kinds})])

\* The locals of pull_credit_report while it runs: the generator and what has
\* been generated so far.
Pulling(bureau) ==
    [rng |-> bureau.rng, credit_score |-> bureau.value, tradelines |-> <<>>,
     public_records |-> <<>>, inquiries |-> <<>>, collections |-> <<>>,
     fraud |-> [alerts |-> <<>>, fraud_score |-> 0]]

\* an assignment `name = generated` of pull_credit_report: the local gets the value
\* drawn and the generator moves on
Assign(g, name, generated) == [g EXCEPT ![name] = generated.value, !.rng = generated.rng]

\* the summary metrics and the CreditReportData that pull_credit_report returns
CreditReportData(g, now) ==
    LET tradelines == g.tradelines
        revolving == {i \in 1..Len(tradelines) : tradelines[i].account_type = "revolving"}
        total_limit == SumSeq([i \in 1..Len(tradelines) |->
                                  IF i \in revolving THEN OrZero(tradelines[i].credit_limit)
                                  ELSE 0])
        total_balance == SumSeq([i \in 1..Len(tradelines) |->
                                    IF i \in revolving THEN tradelines[i].current_balance ELSE 0])
        credit_utilization == IF total_limit > 0
                              THEN RoundDiv(total_balance * 1000, total_limit) ELSE 0
        account_ages == [i \in 1..Len(tradelines) |->
                            Max(1, (now - tradelines[i].opened_date) \div 30)]
        oldest_account_months == IF account_ages # <<>>
                                 THEN CHOOSE a \in {account_ages[i] : i \in 1..Len(account_ages)} :
                                        \A i \in 1..Len(account_ages) : account_ages[i] <= a
                                 ELSE 0
        avg_account_age_months == IF account_ages # <<>>
                                  THEN RoundDiv(SumSeq(account_ages), Len(account_ages)) ELSE 0
        total_payments == CountPayments(tradelines, {"OK", "30", "60", "90", "CO"})
        on_time == CountPayments(tradelines, {"OK"})
        late_30 == CountPayments(tradelines, {"30"})
        late_60 == CountPayments(tradelines, {"60"})
        late_90 == CountPayments(tradelines, {"90", "CO"})
        on_time_pct == IF total_payments > 0 THEN RoundDiv(on_time * 1000, total_payments)
                       ELSE 1000
    IN [credit_score |-> g.credit_score,
        score_model |-> "FICO 8",
        score_factors |-> _generate_score_factors(g.credit_score, credit_utilization, on_time_pct,
                                                  oldest_account_months, g.public_records,
                                                  late_30 + late_60 + late_90),
        tradelines |-> tradelines,
        public_records |-> g.public_records,
        inquiries |-> g.inquiries,
        collections |-> g.collections,
        fraud_alerts |-> g.fraud.alerts,
        fraud_score |-> g.fraud.fraud_score,
        total_accounts |-> Len(tradelines),
        open_accounts |-> Cardinality({i \in 1..Len(tradelines) : tradelines[i].status = "open"}),
        credit_utilization |-> credit_utilization,
        oldest_account_months |-> oldest_account_months,
        avg_account_age_months |-> avg_account_age_months,
        on_time_payments_pct |-> on_time_pct,
        late_payments_30d |-> late_30,
        late_payments_60d |-> late_60,
        late_payments_90d |-> late_90]

\* tradelines = cls._generate_tradelines(financial_info, bureau_score, rng)
PullTradelines(g, financial_info, now) ==
    Assign(g, "tradelines", _generate_tradelines(financial_info, g.credit_score, g.rng, now))

\* public_records = cls._generate_public_records(declarations, rng)
PullPublicRecords(g, declarations, now) ==
    Assign(g, "public_records", _generate_public_records(declarations, g.rng, now))

\* inquiries = cls._generate_inquiries(rng)
PullInquiries(g, now) == Assign(g, "inquiries", _generate_inquiries(g.rng, now))

\* collections = cls._generate_collections(declarations, bureau_score, rng)
PullCollections(g, declarations, now) ==
    Assign(g, "collections", _generate_collections(declarations, g.credit_score, g.rng, now))

\* fraud_alerts, fraud_score = cls._assess_fraud(...)
PullFraud(g, financial_info, employment_info, declarations) ==
    Assign(g, "fraud", _assess_fraud(financial_info, employment_info, declarations,
                                     g.credit_score, g.rng))

\* pull_credit_report at the time now
pull_credit_report(application_id, financial_info, employment_info, declarations, now) ==
    CreditReportData(
        PullFraud(
            PullCollections(
                PullInquiries(
                    PullPublicRecords(
                        PullTradelines(
                            Pulling(_derive_credit_score(financial_info.credit_score,
                                                         declarations,
                                                         _seeded_rng(application_id))),
                            financial_info, now),
                        declarations, now),
                    now),
                declarations, now),
            financial_info, employment_info, declarations),
        now)

\* ------------------------------------------------------------------------
\* Dimension agents (agents/base.py) and the agents argument of run_pipeline
\* ------------------------------------------------------------------------

AgentClass(dim, agent, weight) ==
    [dimension_name |-> dim, agent_name |-> agent, weight |-> weight]

\* The agent classes a caller can pass as `agents`: two of DEFAULT_AGENTS and two
\* subclasses of BaseAgent for the dimensions the aggregator reads by name
\* ("fraud_risk", "compensating_factors"), with the weights of DIMENSION_WEIGHTS.
AgentClasses ==
    <<AgentClass("credit_history", "credit_analysis", 12),
      AgentClass("financial_health", "financial_health", 15),
      AgentClass("fraud_risk", "fraud_risk", 5),
      AgentClass("compensating_factors", "compensating_factors", 10)>>

\* the most agents one run is configured with
MaxAgents == 3

\* the entries of AgentClasses at the positions idx, in order
RECURSIVE Select(_, _)
Select(classes, idx) ==
    IF classes = <<>> THEN <<>>
    ELSE (IF Len(classes) \in idx THEN Select(SubSeq(classes, 1, Len(classes) - 1), idx)
                                        \o <<classes[Len(classes)]>>
          ELSE Select(SubSeq(classes, 1, Len(classes) - 1), idx))

AgentLists ==
    {Select(AgentClasses, idx) :
        idx \in {x \in SUBSET (1..Len(AgentClasses)) : x # {} /\ Cardinality(x) <= MaxAgents}}

\* What one agent's analyze() meets: call_llm_json returns llm_output ("ok"), raises
\* ("error": timeout, provider exhaustion, invalid JSON), or an exception is raised
\* outside analyze's try block and escapes it ("crash").
LLMOutput(score, pos, risks, mit) ==
    [kind |-> "ok", score |-> score, positive_factors |-> pos, risk_factors |-> risks,
     mitigating_factors |-> mit]

LLMError == [kind |-> "error", score |-> 0, positive_factors |-> <<>>,
             risk_factors |-> <<>>, mitigating_factors |-> <<>>]

AgentCrash == [kind |-> "crash", score |-> 0, positive_factors |-> <<>>,
               risk_factors |-> <<>>, mitigating_factors |-> <<>>]

NotCompleted == [kind |-> "pending", score |-> 0, positive_factors |-> <<>>,
                 risk_factors |-> <<>>, mitigating_factors |-> <<>>]

\* the LLM outputs of this model, by dimension: scores inside and outside 0..100,
\* an absent score and a null one
LLMOutputs(dim) ==
    CASE dim = "credit_history" ->
            {LLMOutput(150, <<"Excellent credit score">>, <<>>, <<>>),
             LLMOutput(45, <<>>, <<"Low credit score">>, <<"REBUILT credit after bankruptcy">>),
             LLMOutput(0 - 5, <<>>, <<"Low credit score", "Collections", "Recent lates">>, <<>>)}
      [] dim = "financial_health" ->
            {LLMOutput(85, <<"Strong reserves", "Low DTI", "Stable savings">>, <<>>, <<>>),
             LLMOutput(AbsentNum, <<>>, <<>>, <<>>),
             LLMOutput(NoneNum, <<>>, <<>>, <<>>)}
      [] dim = "fraud_risk" ->
            {LLMOutput(60, <<>>, <<"Identity mismatch", "Inquiry velocity">>, <<>>),
             LLMOutput(20, <<"No fraud indicators">>, <<>>, <<>>)}
      [] dim = "compensating_factors" ->
            {LLMOutput(90, <<"Recovery trajectory: past derogatory marks with clean recent payments">>,
                       <<>>, <<>>),
             LLMOutput(72, <<"Large down payment">>, <<>>, <<>>),
             LLMOutput(50, <<>>, <<"Thin reserves">>, <<>>)}

AgentOutcomes(dim) == LLMOutputs(dim) \cup {LLMError, AgentCrash}

\* BaseAgent.parse_result
parse_result(agent, llm_output) ==
    AgentResult(agent.dimension_name, agent.agent_name,
                Clamp100(Get(llm_output.score, 50)), agent.weight,
                llm_output.positive_factors, llm_output.risk_factors,
                llm_output.mitigating_factors, None)

\* the result of analyze()'s except branch
NeutralResult(agent) ==
    AgentResult(agent.dimension_name, agent.agent_name, 50, agent.weight,
                <<>>, <<"AI analysis unavailable: agent error">>, <<>>, "error")

\* BaseAgent.analyze, for an outcome that does not escape it: float(None) raises
\* inside the try block
analyze(agent, outcome) ==
    IF outcome.kind = "error" \/ outcome.score = NoneNum
    THEN NeutralResult(agent)
    ELSE parse_result(agent, outcome)

\* whether the agent raised, inside analyze or escaping it
AgentRaised(outcome) ==
    outcome.kind \in {"error", "crash"} \/ (outcome.kind = "ok" /\ outcome.score = NoneNum)

\* run_pipeline's substitute for an agent whose future raised
CrashResult(agent) ==
    AgentResult(agent.dimension_name, agent.agent_name, 50, agent.weight,
                <<>>, <<"Agent execution failed">>, <<>>, "crash")

\* run_pipeline without the except branch of lines 98-109: the future of a crashed
\* agent is read as if the agent had returned
Collected_Unguarded(agent, outcome) == analyze(agent, outcome)

\* future.result() or the substitute: what run_pipeline appends for the agent
Collected(agent, outcome) ==
    IF outcome.kind = "crash" THEN CrashResult(agent) ELSE analyze(agent, outcome)

\* ------------------------------------------------------------------------
\* dimension_results.sort(key=lambda r: r.dimension_name)
\* ------------------------------------------------------------------------

\* every dimension name of the model, in the order Python compares strings
NamesInOrder ==
    <<"compensating_factors", "credit_history", "credit_history_depth", "credit_profile",
      "debt_to_income", "down_payment", "earning_potential", "employment_history",
      "financial_health", "fraud_risk", "income_stability", "payment_history",
      "property_assessment">>

NameRank(name) == CHOOSE i \in 1..Len(NamesInOrder) : NamesInOrder[i] = name

\* insert r after the last element whose key is <= r's: a stable insertion
RECURSIVE InsertByName(_, _)
InsertByName(sorted, r) ==
    IF sorted = <<>> THEN <<r>>
    ELSE IF NameRank(sorted[Len(sorted)].dimension_name) <= NameRank(r.dimension_name)
    THEN sorted \o <<r>>
    ELSE InsertByName(SubSeq(sorted, 1, Len(sorted) - 1), r) \o <<sorted[Len(sorted)]>>

\* list.sort by dimension_name (stable)
RECURSIVE SortByName(_)
SortByName(results) ==
    IF results = <<>> THEN <<>>
    ELSE InsertByName(SortByName(SubSeq(results, 1, Len(results) - 1)), results[Len(results)])

\* ------------------------------------------------------------------------
\* Inputs of run_pipeline: the application and the aggregator's LLM reply
\* ------------------------------------------------------------------------

\* A sound application: the stress test passes (payment 2460 + debts 400 against a
\* stressed monthly income of 8000) and the reserves cover 3 payments.
SoundApplication ==
    [loan_amount |-> 320000, down_payment |-> 80000, dti_ratio |-> 30,
     base_interest_rate |-> 650, loan_term_months |-> 360,
     employment_info |-> [annual_income |-> 120000, employment_status |-> "employed",
                          years_at_job |-> 5, job_title |-> "Software Engineer",
                          employer_name |-> "Acme", previous_employer |-> "Initech"],
     financial_info |-> [credit_score |-> 770, liquid_assets |-> 150000,
                         additional_income |-> 0, monthly_debts |-> <<400, NotANumber>>],
     property_info |-> [purchase_price |-> 400000, property_type |-> "single_family",
                        usage_type |-> "primary_residence"],
     declarations |-> [has_bankruptcy |-> FALSE, has_foreclosure |-> FALSE]]

\* A high income with heavy monthly debts: the stressed payment 2460 plus debts of
\* 8000 is 78% of the stressed monthly income of 13333, so the stress test fails.
LeveragedApplication ==
    [SoundApplication EXCEPT !.employment_info.annual_income = 200000,
                             !.dti_ratio = 28,
                             !.financial_info.monthly_debts = <<8000>>]

\* Derogatory declarations and reserves of 2000 after the down payment (less than 3
\* payments of 1896); the stress test passes (2707 against 3750).
ThinApplication ==
    [SoundApplication EXCEPT !.loan_amount = 300000,
                             !.down_payment = 10000,
                             !.dti_ratio = 55,
                             !.financial_info.liquid_assets = 12000,
                             !.financial_info.credit_score = 560,
                             !.employment_info.annual_income = 90000,
                             !.employment_info.employment_status = "self_employed",
                             !.employment_info.years_at_job = 1,
                             !.employment_info.job_title = "Sales Manager",
                             !.employment_info.employer_name = "",
                             !.employment_info.previous_employer = "",
                             !.property_info.usage_type = "investment",
                             !.property_info.property_type = "",
                             !.declarations.has_bankruptcy = TRUE,
                             !.declarations.has_foreclosure = TRUE]

\* Missing fields: no DTI, no product rate or term, null credit score, tenure and
\* price; the income and debts are those of LeveragedApplication.
SparseApplication ==
    [LeveragedApplication EXCEPT !.dti_ratio = NoneNum,
                                 !.base_interest_rate = NoneNum,
                                 !.loan_term_months = NoneNum,
                                 !.financial_info.credit_score = NoneNum,
                                 !.financial_info.liquid_assets = AbsentNum,
                                 !.employment_info.years_at_job = NoneNum,
                                 !.property_info.purchase_price = NoneNum]

Applications == {SoundApplication, LeveragedApplication, ThinApplication, SparseApplication}

Reply(overall, band, rec, conditions, confidence) ==
    [raised |-> FALSE, overall_score |-> overall, overall_score_text |-> "",
     risk_band |-> band, recommendation |-> rec,
     summary |-> "AI summary", key_strengths |-> <<"AI strength">>,
     key_concerns |-> <<"AI concern">>, conditions |-> conditions, confidence |-> confidence]

\* call_llm_json raised (timeout, provider exhaustion, invalid JSON)
ReplyError ==
    [raised |-> TRUE, overall_score |-> 0, overall_score_text |-> "",
     risk_band |-> "", recommendation |-> "",
     summary |-> "", key_strengths |-> <<>>, key_concerns |-> <<>>, conditions |-> <<>>,
     confidence |-> 0]

\* before the aggregator's call, and on the use_llm=False path
NoReply == [ReplyError EXCEPT !.summary = "no call"]

\* an overall_score the model wrote out in words, 550 characters long
Phrase == "72 out of 100, weighing the twelve dimensions so: "
WordyScore ==
    Phrase \o Phrase \o Phrase \o Phrase \o Phrase \o Phrase \o Phrase \o Phrase \o Phrase
        \o Phrase \o Phrase

\* The replies of this model.  Well-formed ones, with an overall_score that is absent,
\* null, below, inside and above 0..100; ones whose band disagrees with the score; ones
\* with an unknown band and recommendation and a confidence above 1; and a failed call.
AggregationReplies ==
    {Reply(o, "low", "approve", <<>>, 90) : o \in {AbsentNum, NoneNum, 0 - 20, 65, 85, 130}}
    \cup {Reply(o, "critical", "deny", <<>>, AbsentNum) : o \in {65, 85}}
    \cup {Reply(o, "severe", "reject", <<"Proof of funds">>, 150) :
            o \in {AbsentNum, 0 - 20, 65, 130}}
    \cup {[Reply(NotANumber, "medium", "review", <<>>, 80)
                EXCEPT !.overall_score_text = WordyScore]}
    \cup {ReplyError}

\* the values of max_parallel: a single worker, and the default
MaxParallelValues == {1, 4}

\* ------------------------------------------------------------------------
\* The Application rows the credit bureau is asked about
\* ------------------------------------------------------------------------

Declarations(bankruptcy, foreclosure, judgments, delinquent_debt) ==
    [has_bankruptcy |-> bankruptcy, has_foreclosure |-> foreclosure,
     has_judgments |-> judgments, has_delinquent_debt |-> delinquent_debt]

NoDeclarations == Declarations(FALSE, FALSE, FALSE, FALSE)

SalariedEmployment == [annual_income |-> 90000, years_at_job |-> 5]

\* a high income with a short tenure
NewHighEarner == [annual_income |-> 250000, years_at_job |-> 1]

Debt(key, amount) == [key |-> key, amount |-> amount]

BureauApplication(id, credit_score, monthly_debts, declarations, employment_info) ==
    [id |-> id,
     financial_info |-> [credit_score |-> credit_score, total_assets |-> 150000,
                         monthly_debts |-> monthly_debts],
     employment_info |-> employment_info,
     declarations |-> declarations]

\* no debts; a car loan; credit cards, student loans and an entry that is no number
BureauDebts ==
    {<<>>,
     <<Debt("car_loan", 400)>>,
     <<Debt("credit_cards", 300), Debt("student_loans", 250), Debt("alimony", NotANumber)>>}

BureauApplications ==
    {BureauApplication(id, credit_score, monthly_debts, declarations, employment_info) :
        id \in {"app-1", "app-2", "app-3"},
        credit_score \in {NoneNum, 640, 800},
        monthly_debts \in BureauDebts,
        declarations \in {NoDeclarations, Declarations(TRUE, TRUE, FALSE, FALSE),
                          Declarations(FALSE, FALSE, TRUE, TRUE)},
        employment_info \in {SalariedEmployment, NewHighEarner}}

\* ------------------------------------------------------------------------
\* run_pipeline (agents/pipeline.py)
\* ------------------------------------------------------------------------

\* the use_llm=False branch of the aggregation step: lines 168-197
InlineAggregation(results) ==
    LET overall == WeightedAverage(results)
    IN [overall_score |-> overall,
        risk_band |-> BandOf(overall),
        recommendation |-> IF FracGE(overall, 80) THEN "approve"
                           ELSE IF FracGE(overall, 40) THEN "review"
                           ELSE "deny",
        summary |-> "Rule-based assessment",
        key_strengths |-> Take(FirstTwoPositives(results), 5),
        key_concerns |-> Take(FirstTwoRisks(results), 5),
        conditions |-> <<>>,
        confidence |-> 60,
        fallback |-> FALSE]

\* sum(1 for r in dimension_results if r.succeeded)
CountSucceeded(results) == Cardinality({i \in 1..Len(results) : succeeded(results[i])})

\* sum(1 for r in dimension_results if not r.succeeded)
CountFailed(results) == Cardinality({i \in 1..Len(results) : ~succeeded(results[i])})

\* the PipelineResult built from the sorted results and the aggregation result
PipelineResult(results, aggregation_result) ==
    [overall_score |-> aggregation_result.overall_score,
     risk_band |-> aggregation_result.risk_band,
     recommendation |-> aggregation_result.recommendation,
     summary |-> aggregation_result.summary,
     confidence |-> Get(aggregation_result.confidence, 50),
     conditions |-> [i \in 1..Len(aggregation_result.conditions) |->
                        [condition |-> aggregation_result.conditions[i], status |-> "pending"]],
     dimension_results |-> results,
     aggregation_result |-> aggregation_result,
     agents_succeeded |-> CountSucceeded(results),
     agents_failed |-> CountFailed(results)]

\* the value of `result` before run_pipeline returns
NoResult == PipelineResult(<<>>, [InlineAggregation(<<>>) EXCEPT !.summary = "not returned"])

\* what the rule path appends for one entry of DIMENSION_SCORERS: lines 128-148
RuleResult(dim_name, scored) ==
    IF scored.raised
    THEN AgentResult(dim_name, "rule_engine", 50, DIMENSION_WEIGHTS(dim_name),
                     <<>>, <<>>, <<>>, "error")
    ELSE AgentResult(dim_name, "rule_engine", scored.score, DIMENSION_WEIGHTS(dim_name),
                     scored.positive_factors, scored.risk_factors,
                     scored.mitigating_factors, None)

\* run_pipeline without line 151: it keeps the results in completion order
SortResults_None(results) == results

\* the sort of line 151
SortResults(results) == SortByName(results)

\* the aggregation step: lines 163-197
AggregationStep(llm, d, results, reply) ==
    IF llm THEN aggregate(d, results, reply) ELSE InlineAggregation(results)

Init ==
    /\ pc = "start"
    /\ use_llm \in BOOLEAN
    /\ max_parallel \in MaxParallelValues
    /\ agent_instances \in AgentLists
    /\ data \in Applications
    \* run_pipeline hands no credit report to a scorer (line 130: scorer(application))
    /\ credit_report_data = NoCreditReport
    /\ app_in_db \in (IF use_llm THEN {TRUE} ELSE BOOLEAN)
    /\ queue = <<>>
    /\ running = {}
    /\ completion = [i \in 1..Len(agent_instances) |-> NotCompleted]
    /\ scorer_idx = 1
    /\ dimension_results = <<>>
    /\ llm_reply = NoReply
    /\ result = NoResult
    /\ application = BureauApplication("app-1", 770, <<>>, NoDeclarations, SalariedEmployment)
    /\ today = 0
    /\ credit_reports = <<>>
    /\ OthersIdle

\* an executor that starts every submitted agent at once
SubmitAgents_AllAtOnce ==
    /\ pc = "start"
    /\ use_llm
    /\ running' = 1..Len(agent_instances)
    /\ queue' = <<>>
    /\ pc' = "running"
    /\ UNCHANGED <<use_llm, max_parallel, agent_instances, data, credit_report_data,
                   app_in_db, completion,
                   scorer_idx, dimension_results, llm_reply, result>>
    /\ UNCHANGED <<bureau_vars, other_vars>>

\* use_llm: every agent is submitted to the executor; max_parallel workers start the
\* first ones, the others wait in the executor's queue
SubmitAgents ==
    /\ pc = "start"
    /\ use_llm
    /\ running' = {i \in 1..Len(agent_instances) : i <= max_parallel}
    /\ queue' = [k \in 1..Max(0, Len(agent_instances) - max_parallel) |-> max_parallel + k]
    /\ pc' = "running"
    /\ UNCHANGED <<use_llm, max_parallel, agent_instances, data, credit_report_data,
                   app_in_db, completion,
                   scorer_idx, dimension_results, llm_reply, result>>
    /\ UNCHANGED <<bureau_vars, other_vars>>

\* A running agent completes (returns or raises) and as_completed hands its future to
\* the collecting loop; the freed worker takes the next queued agent.
CompleteAgent(i, outcome) ==
    /\ pc = "running"
    /\ i \in running
    /\ completion' = [completion EXCEPT ![i] = outcome]
    /\ dimension_results' = Append(dimension_results, Collected(agent_instances[i], outcome))
    /\ running' = (running \ {i}) \cup (IF queue = <<>> THEN {} ELSE {Head(queue)})
    /\ queue' = IF queue = <<>> THEN <<>> ELSE Tail(queue)
    /\ pc' = IF running' = {} THEN "collected" ELSE "running"
    /\ UNCHANGED <<use_llm, max_parallel, agent_instances, data, credit_report_data,
                   app_in_db, scorer_idx,
                   llm_reply, result>>
    /\ UNCHANGED <<bureau_vars, other_vars>>

\* not use_llm: the Application row is loaded; without it no scorer runs
LoadApplication ==
    /\ pc = "start"
    /\ ~use_llm
    /\ pc' = IF app_in_db THEN "scoring" ELSE "collected"
    /\ UNCHANGED <<use_llm, max_parallel, agent_instances, data, credit_report_data,
                   app_in_db, queue, running,
                   completion, scorer_idx, dimension_results, llm_reply, result>>
    /\ UNCHANGED <<bureau_vars, other_vars>>

\* one iteration of the loop over DIMENSION_SCORERS: scorer(application)
ScoreDimension ==
    /\ pc = "scoring"
    /\ LET dim_name == DimensionNames[scorer_idx]
       IN dimension_results' =
            Append(dimension_results,
                   RuleResult(dim_name, DIMENSION_SCORERS(dim_name, data, NoCreditReport)))
    /\ scorer_idx' = scorer_idx + 1
    /\ pc' = IF scorer_idx = Len(DimensionNames) THEN "collected" ELSE "scoring"
    /\ UNCHANGED <<use_llm, max_parallel, agent_instances, data, credit_report_data,
                   app_in_db, queue, running,
                   completion, llm_reply, result>>
    /\ UNCHANGED <<bureau_vars, other_vars>>

\* the sort, the counts, the aggregation and the return
Aggregate(reply) ==
    /\ pc = "collected"
    /\ LET sorted == SortResults(dimension_results)
       IN /\ dimension_results' = sorted
          /\ result' = PipelineResult(sorted, AggregationStep(use_llm, data, sorted, reply))
    /\ llm_reply' = reply
    /\ pc' = "done"
    /\ UNCHANGED <<use_llm, max_parallel, agent_instances, data, credit_report_data,
                   app_in_db, queue, running,
                   completion, scorer_idx>>
    /\ UNCHANGED <<bureau_vars, other_vars>>

Next ==
    \/ SubmitAgents
    \/ \E i \in 1..Len(agent_instances) :
        \E outcome \in AgentOutcomes(agent_instances[i].dimension_name) :
            CompleteAgent(i, outcome)
    \/ LoadApplication
    \/ ScoreDimension
    \/ \E reply \in (IF use_llm THEN AggregationReplies ELSE {NoReply}) : Aggregate(reply)

Spec == Init /\ [][Next]_vars

\* ------------------------------------------------------------------------
\* The rule scorers called on their own, over the whole of their arguments:
\* scorer(application, credit_report=...) for every entry of DIMENSION_SCORERS
\* ------------------------------------------------------------------------

\* annual_income: negative, zero, modest, high
ScorerIncomes == {0 - 50000, 0, 45000, 200000}

\* dti_ratio: null, negative, near the limit, absurd
ScorerDtis == {NoneNum, 0 - 10, 40, 500}

\* loan_amount, down_payment, purchase_price and liquid_assets: sound; a negative down
\* payment without assets; a negative price and loan; a down payment above the price
ScorerCollaterals ==
    {[loan_amount |-> 320000, down_payment |-> 80000, purchase_price |-> 400000,
      liquid_assets |-> 150000],
     [loan_amount |-> 320000, down_payment |-> 0 - 5000, purchase_price |-> 400000,
      liquid_assets |-> 0],
     [loan_amount |-> 0 - 100000, down_payment |-> 80000, purchase_price |-> 0 - 400000,
      liquid_assets |-> 150000],
     [loan_amount |-> 320000, down_payment |-> 500000, purchase_price |-> 400000,
      liquid_assets |-> AbsentNum]}

\* credit score, declarations and employment: strong; derogatory and self-employed;
\* a negative score and tenure without a status; null score and tenure
ScorerBorrowers ==
    {[credit_score |-> 900, derogatory |-> FALSE, employment_status |-> "employed",
      years_at_job |-> 5, job_title |-> "Software Engineer"],
     [credit_score |-> 640, derogatory |-> TRUE, employment_status |-> "self_employed",
      years_at_job |-> 1, job_title |-> "Sales Manager"],
     [credit_score |-> 0 - 300, derogatory |-> TRUE, employment_status |-> "",
      years_at_job |-> 0 - 3, job_title |-> ""],
     [credit_score |-> NoneNum, derogatory |-> FALSE, employment_status |-> "employed",
      years_at_job |-> NoneNum, job_title |-> "Software Engineer"]}

ScorerApplication(income, dti, c, b) ==
    [SoundApplication EXCEPT !.loan_amount = c.loan_amount,
                             !.down_payment = c.down_payment,
                             !.dti_ratio = dti,
                             !.financial_info.liquid_assets = c.liquid_assets,
                             !.financial_info.credit_score = b.credit_score,
                             !.financial_info.monthly_debts = <<400, 100000>>,
                             !.employment_info.annual_income = income,
                             !.employment_info.employment_status = b.employment_status,
                             !.employment_info.years_at_job = b.years_at_job,
                             !.employment_info.job_title = b.job_title,
                             !.property_info.purchase_price = c.purchase_price,
                             !.declarations.has_bankruptcy = b.derogatory,
                             !.declarations.has_foreclosure = b.derogatory]

ScorerApplications ==
    {ScorerApplication(income, dti, c, b) :
        income \in ScorerIncomes, dti \in ScorerDtis,
        c \in ScorerCollaterals, b \in ScorerBorrowers}

\* a tradeline as the scorers read it
Tradeline(account_type, history) ==
    [account_type |-> account_type, payment_history_24m |-> history]

\* a clean report with a long, mixed history
CleanReport ==
    [present |-> TRUE, credit_score |-> 800, oldest_account_months |-> 200,
     avg_account_age_months |-> 90, credit_utilization |-> 5,
     tradelines |-> <<Tradeline("revolving", <<"OK", "OK", "OK">>),
                      Tradeline("installment", <<"OK", "OK">>),
                      Tradeline("mortgage", <<"OK">>)>>,
     on_time_payments_pct |-> 100, late_payments_30d |-> 0, late_payments_60d |-> 0,
     late_payments_90d |-> 0, fraud_score |-> 0, fraud_alerts |-> <<>>, inquiries |-> <<>>]

\* values far outside what a bureau reports: 40 late payments of each kind, a
\* utilization of 250%, a fraud score of 150, seven high alerts, a negative age
AbsurdReport ==
    [present |-> TRUE, credit_score |-> 0 - 40, oldest_account_months |-> 0 - 5,
     avg_account_age_months |-> 0 - 5, credit_utilization |-> 250,
     tradelines |-> <<Tradeline("revolving", <<"90", "60", "30">>)>>,
     on_time_payments_pct |-> 0 - 20, late_payments_30d |-> 40, late_payments_60d |-> 40,
     late_payments_90d |-> 40, fraud_score |-> 150,
     fraud_alerts |-> <<"high", "high", "high", "high", "high", "high", "high">>,
     inquiries |-> <<"auto", "credit_card", "auto", "personal", "mortgage">>]

\* past lates with a clean recent history, and an on-time percentage above 100
RecoveredReport ==
    [present |-> TRUE, credit_score |-> 0, oldest_account_months |-> 70,
     avg_account_age_months |-> 30, credit_utilization |-> 60,
     tradelines |-> <<Tradeline("revolving", <<"OK", "OK">>),
                      Tradeline("revolving", <<"OK">>)>>,
     on_time_payments_pct |-> 120, late_payments_30d |-> 1, late_payments_60d |-> 0,
     late_payments_90d |-> 0 - 2, fraud_score |-> 45, fraud_alerts |-> <<"low">>,
     inquiries |-> <<"mortgage">>]

CreditReports == {NoCreditReport, CleanReport, AbsurdReport, RecoveredReport}

InitScorers ==
    /\ pc = "scorer_call"
    /\ use_llm = FALSE
    /\ max_parallel = 1
    /\ agent_instances = <<>>
    /\ data \in ScorerApplications
    /\ credit_report_data \in CreditReports
    /\ app_in_db = TRUE
    /\ queue = <<>>
    /\ running = {}
    /\ completion = <<>>
    /\ scorer_idx = 1
    /\ dimension_results = <<>>
    /\ llm_reply = NoReply
    /\ result = NoResult
    /\ application = BureauApplication("app-1", 770, <<>>, NoDeclarations, SalariedEmployment)
    /\ today = 0
    /\ credit_reports = <<>>
    /\ OthersIdle

\* the next scorer of DIMENSION_SCORERS is called with the application and the report;
\* what comes back is kept as run_pipeline's rule path keeps it
CallScorer ==
    /\ pc = "scorer_call"
    /\ LET dim_name == DimensionNames[scorer_idx]
       IN dimension_results' =
            Append(dimension_results,
                   RuleResult(dim_name, DIMENSION_SCORERS(dim_name, data, credit_report_data)))
    /\ scorer_idx' = scorer_idx + 1
    /\ pc' = IF scorer_idx = Len(DimensionNames) THEN "scorer_done" ELSE "scorer_call"
    /\ UNCHANGED <<use_llm, max_parallel, agent_instances, data, credit_report_data,
                   app_in_db, queue, running, completion, llm_reply, result>>
    /\ UNCHANGED <<bureau_vars, other_vars>>

\* ------------------------------------------------------------------------
\* The credit bureau pull of run_risk_assessment (worker/tasks/risk_assessment.py
\* lines 806-862): every attempt of the task pulls a report for the application
\* ------------------------------------------------------------------------

\* the attempts of one task: the first run and max_retries = 2 retries
MaxAttempts == 3

\* the days that pass between the first attempt and the last
MaxDays == 2

InitBureau ==
    /\ pc = "bureau"
    /\ use_llm = TRUE
    /\ max_parallel = 1
    /\ agent_instances = <<>>
    /\ data = SoundApplication
    /\ credit_report_data = NoCreditReport
    /\ app_in_db = TRUE
    /\ queue = <<>>
    /\ running = {}
    /\ completion = <<>>
    /\ scorer_idx = 1
    /\ dimension_results = <<>>
    /\ llm_reply = NoReply
    /\ result = NoResult
    /\ application \in BureauApplications
    /\ today = 0
    /\ credit_reports = <<>>
    /\ OthersIdle

\* an attempt of the task pulls the report and stores it
PullCreditReport ==
    /\ pc = "bureau"
    /\ Len(credit_reports) < MaxAttempts
    /\ credit_reports' = Append(credit_reports,
                                pull_credit_report(application.id, application.financial_info,
                                                   application.employment_info,
                                                   application.declarations, today))
    /\ UNCHANGED <<pc, use_llm, max_parallel, agent_instances, data, credit_report_data,
                   app_in_db, queue, running, completion, scorer_idx, dimension_results,
                   llm_reply, result, application, today, other_vars>>

\* the clock reaches the next day
DayPasses ==
    /\ pc = "bureau"
    /\ today < MaxDays
    /\ today' = today + 1
    /\ UNCHANGED <<pc, use_llm, max_parallel, agent_instances, data, credit_report_data,
                   app_in_db, queue, running, completion, scorer_idx, dimension_results,
                   llm_reply, result, application, credit_reports, other_vars>>

NextBureau == PullCreditReport \/ DayPasses

SpecBureau == InitBureau /\ [][NextBureau]_vars

\* the pipeline, and the scorers on their own
InitScores == Init \/ InitScorers

NextScores == Next \/ CallScorer

SpecScores == InitScores /\ [][NextScores]_vars

\* ------------------------------------------------------------------------
\* Properties of run_pipeline
\* ------------------------------------------------------------------------

\* run_pipeline has returned
Returned == pc = "done"

\* the results contain a succeeded result named "fraud_risk" with a score >= 60
FraudFlagged(results) ==
    \E i \in 1..Len(results) :
        /\ results[i].dimension_name = "fraud_risk"
        /\ succeeded(results[i])
        /\ results[i].score >= 60

\* the indices of the configured agents that raised
RaisedAgents == {i \in 1..Len(agent_instances) : AgentRaised(completion[i])}

\* the positions of the returned results that belong to agent i
ResultsOf(i) ==
    {k \in 1..Len(result.dimension_results) :
        /\ result.dimension_results[k].dimension_name = agent_instances[i].dimension_name
        /\ result.dimension_results[k].agent_name = agent_instances[i].agent_name}

\* C1: on every aggregation path, a succeeded fraud_risk result with a score of 60 or
\* more makes the returned recommendation "deny", whatever the overall score.
C1_FraudAlwaysDenies ==
    (Returned /\ FraudFlagged(result.dimension_results)) => result.recommendation = "deny"

\* C2: with use_llm, when N of the M configured agents raise, the returned result holds
\* exactly M dimension results, one per agent; each failed one has score 50 and a
\* non-null error; agents_failed = N and agents_succeeded = M - N; and the result of
\* every agent that did not raise is what that agent produced from its own LLM output.
C2_FailuresAreIsolated ==
    (Returned /\ use_llm) =>
        /\ Len(result.dimension_results) = Len(agent_instances)
        /\ \A i \in 1..Len(agent_instances) :
            /\ Cardinality(ResultsOf(i)) = 1
            /\ \A k \in ResultsOf(i) :
                IF i \in RaisedAgents
                THEN /\ result.dimension_results[k].score = 50
                     /\ result.dimension_results[k].error # None
                ELSE /\ result.dimension_results[k].error = None
                     /\ result.dimension_results[k].score
                            = Clamp100(Get(completion[i].score, 50))
                     /\ result.dimension_results[k].positive_factors
                            = completion[i].positive_factors
                     /\ result.dimension_results[k].risk_factors = completion[i].risk_factors
                     /\ result.dimension_results[k].mitigating_factors
                            = completion[i].mitigating_factors
                     /\ result.dimension_results[k].weight = agent_instances[i].weight
        /\ result.agents_failed = Cardinality(RaisedAgents)
        /\ result.agents_succeeded = Len(agent_instances) - Cardinality(RaisedAgents)

\* three agents ran; one raised inside analyze, one raised past it, one succeeded
C2_Witness ==
    /\ Returned
    /\ use_llm
    /\ Len(agent_instances) = 3
    /\ \E i, j, k \in 1..3 :
        /\ completion[i].kind = "error"
        /\ completion[j].kind = "crash"
        /\ completion[k].kind = "ok" /\ completion[k].score = 150
    /\ result.agents_failed = 2

\* every LLM call of the run failed: each agent's call and the aggregator's
AllCallsFailed ==
    /\ use_llm
    /\ \A i \in 1..Len(agent_instances) : completion[i].kind = "error"
    /\ llm_reply.raised

\* C3: a run whose every LLM call failed (each agent returned its neutral failed
\* result and the aggregation fell back to rules) returns neither recommendation
\* "deny" nor risk_band "critical".
C3_OutageNeverDenies ==
    (Returned /\ AllCallsFailed) =>
        (result.recommendation # "deny" /\ result.risk_band # "critical")

\* what the agents produced, in the order the agents were configured
OutcomesInConfiguredOrder ==
    [i \in 1..Len(agent_instances) |-> Collected(agent_instances[i], completion[i])]

\* C4: the returned PipelineResult is determined by the per-agent outcomes alone: it
\* is the result computed from the outcomes taken in configured order, whatever the
\* order in which the agents completed.
C4_OrderIndependent ==
    (Returned /\ use_llm) =>
        result = PipelineResult(SortResults(OutcomesInConfiguredOrder),
                                AggregationStep(TRUE, data, SortResults(OutcomesInConfiguredOrder),
                                                llm_reply))

\* a single worker ran three agents in configured order, compensating_factors last,
\* and the returned list starts with compensating_factors
C4_Witness ==
    /\ Returned
    /\ use_llm
    /\ max_parallel = 1
    /\ Len(agent_instances) = 3
    /\ agent_instances[3].dimension_name = "compensating_factors"
    /\ result.dimension_results[1].dimension_name = "compensating_factors"
    /\ result.dimension_results[1].score = 90

\* C5: every returned result has its risk_band and recommendation in the enumerated
\* sets, and its risk_band is the band of its overall_score (>= 80 low, >= 60 medium,
\* >= 40 high, else critical).
C5_BandMatchesScore ==
    Returned =>
        /\ result.risk_band \in valid_bands
        /\ result.recommendation \in valid_recs
        /\ result.risk_band = BandOf(result.overall_score)

\* the aggregation was rule-based: the use_llm=False branch or the aggregator's fallback
RuleBasedPath == ~use_llm \/ result.aggregation_result.fallback

\* the positions of the succeeded results
SucceededIdx(results) == {i \in 1..Len(results) : results[i].error = None}

\* the sum of score * weight over the positions idx
RECURSIVE SumScoreWeight(_, _)
SumScoreWeight(results, idx) ==
    IF idx = {} THEN 0
    ELSE LET i == CHOOSE j \in idx : TRUE
         IN results[i].score * results[i].weight + SumScoreWeight(results, idx \ {i})

\* the sum of weight over the positions idx
RECURSIVE SumWeight(_, _)
SumWeight(results, idx) ==
    IF idx = {} THEN 0
    ELSE LET i == CHOOSE j \in idx : TRUE
         IN results[i].weight + SumWeight(results, idx \ {i})

\* C7: on the rule-based paths overall_score is the sum of score * weight over the
\* sum of weight, both over the succeeded results only, and 50 when none succeeded.
C7_WeightedAverageOfSucceeded ==
    (Returned /\ RuleBasedPath) =>
        LET results == result.dimension_results
            ok == SucceededIdx(results)
        IN IF ok = {}
           THEN result.overall_score = Whole(50)
           ELSE /\ result.overall_score.d > 0
                /\ result.overall_score.n * SumWeight(results, ok)
                    = SumScoreWeight(results, ok) * result.overall_score.d

\* the aggregator fell back with one failed agent beside scores of 45 (weight 12) and
\* 85 (weight 15): overall 1815 / 27
C7_Witness ==
    /\ Returned
    /\ use_llm
    /\ result.aggregation_result.fallback
    /\ result.agents_failed = 1
    /\ result.agents_succeeded = 2
    /\ result.overall_score = [n |-> 1815, d |-> 27]

\* the condition texts of the two aggregators for a failed stress test
RateLockConditions ==
    {"Rate lock and income verification required before closing",
     "Rate lock and income verification required"}

EscrowConditions == {"Escrow account required"}

\* the returned conditions include one of the given texts
HasCondition(texts) ==
    \E i \in 1..Len(result.conditions) : result.conditions[i].condition \in texts

\* C9: without a fraud override and with an overall score of 80 or more, the
\* recommendation is "approve" unless the stress test fails; then it is
\* "conditional_approve" with both the rate-lock / income condition and the escrow
\* condition, on the AI path and on the rule-based paths.
C9_HighScoreStressTest ==
    (Returned /\ ~FraudFlagged(result.dimension_results)
              /\ FracGE(result.overall_score, 80)) =>
        IF _check_stress_test(data)
        THEN /\ result.recommendation = "conditional_approve"
             /\ HasCondition(RateLockConditions)
             /\ HasCondition(EscrowConditions)
        ELSE result.recommendation = "approve"

\* C10: without a fraud override and with 60 <= overall score < 80, the recommendation
\* is "conditional_approve" exactly when the compensating_factors score is >= 70 and a
\* recovery trajectory is detected; otherwise "deny" when the stress test fails or the
\* reserves are deficient; otherwise "review".
C10_MediumScoreRecommendation ==
    (Returned /\ ~FraudFlagged(result.dimension_results)
              /\ FracGE(result.overall_score, 60)
              /\ ~FracGE(result.overall_score, 80)) =>
        result.recommendation =
            IF /\ DimScore(result.dimension_results, "compensating_factors", 50) >= 70
               /\ _detect_recovery_trajectory(result.dimension_results)
            THEN "conditional_approve"
            ELSE IF _check_stress_test(data) \/ _check_reserve_deficit(data)
            THEN "deny"
            ELSE "review"

\* every score of the list lies in 0..100
ScoresInRange(results) ==
    \A i \in 1..Len(results) : results[i].score >= 0 /\ results[i].score <= 100

\* C8: every score lies in [0, 100]: each dimension score an agent's parse_result, an
\* agent's failure path or a rule scorer produces, and the overall_score of every
\* returned result, for every input (negative income, absurd DTI, AI scores outside
\* the range).
C8_ScoresInRange ==
    /\ ScoresInRange(dimension_results)
    /\ ScoresInRange(result.dimension_results)
    /\ result.overall_score.d > 0
    /\ result.overall_score.n >= 0
    /\ result.overall_score.n <= 100 * result.overall_score.d

\* every scorer ran on a negative income, a DTI of 500 and the absurd report, and the
\* payment history score came out at the lower end of the range
C8_Witness ==
    /\ pc = "scorer_done"
    /\ data.employment_info.annual_income < 0
    /\ data.dti_ratio = 500
    /\ credit_report_data = AbsurdReport
    /\ Len(dimension_results) = Len(DimensionNames)
    /\ \E i \in 1..Len(dimension_results) :
        /\ dimension_results[i].dimension_name = "payment_history"
        /\ dimension_results[i].score = 0

\* C6: pull_credit_report is deterministic: every report pulled for one application,
\* with the same financial, employment and declaration data, is the same report
\* (score, tradelines with their opened dates, payment histories, public records,
\* inquiries, collections, summary metrics), whenever it is pulled.
C6_PullsAreIdentical ==
    \A i, j \in 1..Len(credit_reports) : credit_reports[i] = credit_reports[j]

\* C11: without a fraud override, on every aggregation path, an overall score below 40
\* gives "deny", and an overall score in [40, 60) gives "review" when the
\* compensating_factors score is >= 75 and "deny" otherwise.
C11_LowScoreRecommendation ==
    (Returned /\ ~FraudFlagged(result.dimension_results)
              /\ ~FracGE(result.overall_score, 60)) =>
        result.recommendation =
            IF ~FracGE(result.overall_score, 40) THEN "deny"
            ELSE IF DimScore(result.dimension_results, "compensating_factors", 50) >= 75
            THEN "review"
            ELSE "deny"

\* the reply the AI path would work on when the model answers with the weighted average
\* of the dimension results
ReplyWithWeightedAverage(results) ==
    [ValidateReply(Reply(50, "medium", "review", <<>>, 90))
        EXCEPT !.overall_score = WeightedAverage(results)]

\* C12: for the dimension results and application data of every run, the rule-based
\* fallback and the AI path's override layer, given the weighted average as overall
\* score, return the same recommendation.
C12_FallbackMatchesOverrides ==
    (pc \in {"collected", "done"}) =>
        _rule_based_aggregation(dimension_results, data, "error").recommendation
            = _apply_intelligent_overrides(ReplyWithWeightedAverage(dimension_results),
                                           dimension_results, data).recommendation

\* ------------------------------------------------------------------------
\* BaseAgent.analyze step by step (agents/base.py lines 182-231): build_prompt,
\* call_llm_json, parse_result, and the except branch
\* ------------------------------------------------------------------------

\* what build_prompt raises: the base class's NotImplementedError, a TypeError while
\* formatting a field
PromptExceptions == {"NotImplementedError", "TypeError"}

\* what call_llm_json raises: RuntimeError when every provider failed or timed out,
\* ValueError when the response is no JSON
CallExceptions == {"RuntimeError", "ValueError"}

\* a response that is valid JSON but no object: llm_output.get raises AttributeError
NotADict == [LLMError EXCEPT !.kind = "list"]

\* what parse_result raises on llm_output, or None
ParseException(llm_output) ==
    IF llm_output.kind = "list" THEN "AttributeError"
    ELSE IF llm_output.score = NoneNum THEN "TypeError"
    ELSE None

\* a handler that names one class only
Caught_RuntimeErrorOnly(exc) == exc = "RuntimeError"

\* `except Exception`: every exception of the three steps is an Exception
Caught(exc) == exc \in PromptExceptions \cup CallExceptions \cup {"AttributeError"}

InitAgent ==
    /\ pc = "analyze_start"
    /\ use_llm = TRUE
    /\ max_parallel = 1
    /\ agent_instances \in {<<AgentClasses[i]>> : i \in 1..Len(AgentClasses)}
    /\ data \in Applications
    /\ credit_report_data = NoCreditReport
    /\ app_in_db = TRUE
    /\ queue = <<>>
    /\ running = {1}
    /\ completion = <<NotCompleted>>
    /\ scorer_idx = 1
    /\ dimension_results = <<>>
    /\ llm_reply = NoReply
    /\ result = NoResult
    /\ application = BureauApplication("app-1", 770, <<>>, NoDeclarations, SalariedEmployment)
    /\ today = 0
    /\ credit_reports = <<>>
    /\ OthersIdle

\* exc is raised inside the try block: the except branch returns the neutral result,
\* or the exception leaves analyze
AnalyzeRaise(exc) ==
    /\ raised' = Append(raised, exc)
    /\ IF Caught(exc)
       THEN /\ dimension_results' = <<NeutralResult(agent_instances[1])>>
            /\ pc' = "analyze_returned"
       ELSE /\ dimension_results' = dimension_results
            /\ pc' = "analyze_escaped"

\* messages = self.build_prompt(data)
AnalyzeBuildPrompt(exc) ==
    /\ pc = "analyze_start"
    /\ IF exc = None
       THEN pc' = "analyze_prompted" /\ UNCHANGED <<dimension_results, raised>>
       ELSE AnalyzeRaise(exc)
    /\ UNCHANGED <<use_llm, max_parallel, agent_instances, data, credit_report_data,
                   app_in_db, queue, running, completion, scorer_idx, llm_reply, result,
                   bureau_vars, idle_vars>>

\* llm_output, llm_response = call_llm_json(...): it returns an output
AnalyzeCallReturns(llm_output) ==
    /\ pc = "analyze_prompted"
    /\ completion' = <<llm_output>>
    /\ pc' = "analyze_called"
    /\ UNCHANGED <<use_llm, max_parallel, agent_instances, data, credit_report_data,
                   app_in_db, queue, running, scorer_idx, dimension_results, llm_reply,
                   result, bureau_vars, raised, idle_vars>>

\* call_llm_json raises
AnalyzeCallRaises(exc) ==
    /\ pc = "analyze_prompted"
    /\ completion' = <<LLMError>>
    /\ AnalyzeRaise(exc)
    /\ UNCHANGED <<use_llm, max_parallel, agent_instances, data, credit_report_data,
                   app_in_db, queue, running, scorer_idx, llm_reply, result, bureau_vars, idle_vars>>

\* result = self.parse_result(llm_output, data); return result
AnalyzeParse ==
    /\ pc = "analyze_called"
    /\ IF ParseException(completion[1]) = None
       THEN /\ dimension_results' = <<parse_result(agent_instances[1], completion[1])>>
            /\ pc' = "analyze_returned"
            /\ UNCHANGED raised
       ELSE AnalyzeRaise(ParseException(completion[1]))
    /\ UNCHANGED <<use_llm, max_parallel, agent_instances, data, credit_report_data,
                   app_in_db, queue, running, completion, scorer_idx, llm_reply, result,
                   bureau_vars, idle_vars>>

NextAgent ==
    \/ \E exc \in PromptExceptions \cup {None} : AnalyzeBuildPrompt(exc)
    \/ \E llm_output \in LLMOutputs(agent_instances[1].dimension_name) \cup {NotADict} :
        AnalyzeCallReturns(llm_output)
    \/ \E exc \in CallExceptions : AnalyzeCallRaises(exc)
    \/ AnalyzeParse

SpecAgent == InitAgent /\ [][NextAgent]_vars

\* C13: analyze never raises; when build_prompt, call_llm_json or parse_result raised,
\* it returns a result with the agent's own dimension name and weight, score 50,
\* exactly one risk factor (AI analysis unavailable), and a non-null error, so that
\* succeeded is false.
C13_AnalyzeNeverRaises ==
    /\ pc # "analyze_escaped"
    /\ (pc = "analyze_returned" /\ raised # <<>>) =>
        /\ Len(dimension_results) = 1
        /\ dimension_results[1].dimension_name = agent_instances[1].dimension_name
        /\ dimension_results[1].agent_name = agent_instances[1].agent_name
        /\ dimension_results[1].weight = agent_instances[1].weight
        /\ dimension_results[1].score = 50
        /\ dimension_results[1].risk_factors = <<"AI analysis unavailable: agent error">>
        /\ dimension_results[1].error # None
        /\ ~succeeded(dimension_results[1])

\* the response was JSON null for the score, parse_result raised TypeError, and analyze
\* returned the neutral result
C13_Witness ==
    /\ pc = "analyze_returned"
    /\ raised = <<"TypeError">>
    /\ completion[1].kind = "ok"
    /\ completion[1].score = NoneNum
    /\ dimension_results = <<NeutralResult(agent_instances[1])>>


\* the longest error text a summary may carry: the length str(e)[:500] keeps elsewhere
SummaryErrorLimit == 500

\* C14: when the synthesis call raises or its output is unusable, aggregate returns the
\* rule-based aggregation of the same dimension results, with fallback = true and a
\* summary that starts with "Rule-based assessment" and carries the error message in
\* truncated form.
C14_AggregateFallsBack ==
    (pc = "done" /\ use_llm /\ ReplyRaises(llm_reply)) =>
        /\ result.aggregation_result.overall_score = WeightedAverage(dimension_results)
        /\ result.aggregation_result.fallback = TRUE
        /\ SubSeq(result.summary, 1, 21) = "Rule-based assessment"
        /\ Len(result.summary)
            <= Len("Rule-based assessment" \o error_msg("") \o ". Score") + SummaryErrorLimit


\* ------------------------------------------------------------------------
\* The Celery task run_risk_assessment (worker/tasks/risk_assessment.py lines
\* 742-996) and what enqueues it
\* ------------------------------------------------------------------------

\* how many jobs are enqueued
MaxJobs == 2

\* max_retries=2 of the task decorator
max_retries == 2

\* what run_pipeline raises inside the task: str(exc)
PipelineExceptions == {"invalid input: " \o WordyScore}

\* what the bureau step of an attempt did: pull_credit_report returned and the
\* CreditReport row was committed; pull_credit_report raised; building or committing
\* the CreditReport row raised
BureauOutcomes == {"pulled", "pull_raised", "persist_raised"}

\* the decisions of this model
Decisions == {"denied"}

\* a job as apply_async creates it: self.request.retries = 0
NewJob ==
    [retries |-> 0, state |-> "queued", assessment_ids |-> <<>>, bureau |-> "none",
     credit_report |-> NoCreditReport]

\* RiskAssessment(application_id, status="in_progress", attempt_number=retries + 1)
RiskAssessment(application_id, retries) ==
    [application_id |-> application_id, status |-> "in_progress",
     attempt_number |-> retries + 1, error_message |-> None]

\* the error message kept whole
str_whole(exc) == exc

\* str(exc)[:500]
str_500(exc) == IF Len(exc) <= 500 THEN exc ELSE SubSeq(exc, 1, 500)

\* the call returned or raised: its locals are gone
Left(job, state) ==
    [job EXCEPT !.state = state, !.bureau = "none", !.credit_report = NoCreditReport]

\* self.retry(exc=exc) does not raise and the task goes on to its events
retry_GoesOn(job) == [job EXCEPT !.state = "stored"]

\* self.retry(exc=exc): Celery enqueues the job again with retries + 1 while
\* retries < max_retries, and lets exc fail the job otherwise
retry(job) ==
    IF job.retries < max_retries
    THEN [Left(job, "queued") EXCEPT !.retries = @ + 1]
    ELSE Left(job, "failed")

InitTask ==
    /\ pc = "task"
    /\ use_llm = TRUE
    /\ max_parallel = 1
    /\ agent_instances = <<>>
    /\ data = SoundApplication
    /\ credit_report_data = NoCreditReport
    /\ app_in_db = TRUE
    /\ queue = <<>>
    /\ running = {}
    /\ completion = <<>>
    /\ scorer_idx = 1
    /\ dimension_results = <<>>
    /\ llm_reply = NoReply
    /\ result = NoResult
    /\ application = BureauApplication("app-1", 770, <<>>, NoDeclarations, SalariedEmployment)
    /\ today = 0
    /\ credit_reports = <<>>
    /\ OthersIdle

\* POST /applications/{id}/submit (routes/applications.py): a draft only
submit_application ==
    /\ app_status = "draft"
    /\ Len(jobs) < MaxJobs
    /\ app_status' = "submitted"
    /\ jobs' = Append(jobs, NewJob)
    /\ UNCHANGED <<pipeline_vars, bureau_vars, gateway_vars, raised, assessments>>

\* the submit_application tool of the chat agent (services/chat_agent.py): no check
\* of the status
ChatSubmitApplication ==
    /\ Len(jobs) < MaxJobs
    /\ app_status' = "submitted"
    /\ jobs' = Append(jobs, NewJob)
    /\ UNCHANGED <<pipeline_vars, bureau_vars, gateway_vars, raised, assessments>>

\* POST /applications/{id}/decision (routes/decisions.py)
create_decision(decision) ==
    /\ app_status \in {"submitted", "under_review", "risk_assessment_in_progress"}
    /\ app_status' = decision
    /\ UNCHANGED <<pipeline_vars, bureau_vars, gateway_vars, raised, jobs, assessments>>

\* run_risk_assessment up to the call of run_pipeline: the status check, the new
\* RiskAssessment row, the bureau pull and the ApplicationData
StartAttempt(j, bureau) ==
    /\ jobs[j].state = "queued"
    /\ IF app_status \notin {"submitted", "under_review"}
       THEN /\ jobs' = [jobs EXCEPT ![j].state = "skipped"]
            /\ UNCHANGED <<assessments, credit_reports>>
       ELSE /\ assessments' = Append(assessments,
                                     RiskAssessment(application.id, jobs[j].retries))
            /\ credit_reports' =
                IF bureau = "pulled"
                THEN Append(credit_reports,
                            pull_credit_report(application.id, application.financial_info,
                                               application.employment_info,
                                               application.declarations, today))
                ELSE credit_reports
            /\ jobs' = [jobs EXCEPT ![j] =
                  [@ EXCEPT !.state = "running",
                            !.assessment_ids = Append(@, Len(assessments) + 1),
                            !.bureau = bureau,
                            !.credit_report =
                                IF bureau = "pull_raised"
                                THEN NoCreditReport
                                ELSE pull_credit_report(application.id,
                                                        application.financial_info,
                                                        application.employment_info,
                                                        application.declarations, today)]]
    /\ UNCHANGED <<pipeline_vars, application, today, gateway_vars, raised, app_status>>

\* the id of the row the running attempt of job created
assessment_id(job) == job.assessment_ids[Len(job.assessment_ids)]

\* run_risk_assessment from the call of run_pipeline on: exc is what run_pipeline
\* raised, or None
FinishAttempt(j, exc) ==
    /\ jobs[j].state = "running"
    /\ IF exc = None
       THEN /\ assessments' = [assessments EXCEPT ![assessment_id(jobs[j])].status = "completed"]
            /\ app_status' = IF app_status = "submitted" THEN "under_review" ELSE app_status
            /\ jobs' = [jobs EXCEPT ![j] = Left(@, "succeeded")]
       ELSE /\ assessments' = [assessments EXCEPT ![assessment_id(jobs[j])] =
                                  [@ EXCEPT !.status = "failed",
                                            !.error_message = str_500(exc)]]
            /\ jobs' = [jobs EXCEPT ![j] = retry(@)]
            /\ UNCHANGED app_status
    /\ UNCHANGED <<pipeline_vars, bureau_vars, gateway_vars, raised>>

NextTask ==
    \/ submit_application
    \/ ChatSubmitApplication
    \/ \E decision \in Decisions : create_decision(decision)
    \/ \E j \in 1..Len(jobs) : \E bureau \in BureauOutcomes : StartAttempt(j, bureau)
    \/ \E j \in 1..Len(jobs) : \E exc \in PipelineExceptions \cup {None} : FinishAttempt(j, exc)

SpecTask == InitTask /\ [][NextTask]_vars

\* C15: when run_pipeline raises, the attempt's RiskAssessment row is set to "failed"
\* with an error message of at most 500 characters and the job is retried; a job is
\* retried at most 2 times (3 attempts), and then fails for good.
C15_FailedAttemptsAreRetried ==
    /\ \A a \in 1..Len(assessments) :
        assessments[a].status = "failed" =>
            /\ assessments[a].error_message # None
            /\ Len(assessments[a].error_message) <= 500
    /\ \A j \in 1..Len(jobs) :
        /\ jobs[j].retries <= 2
        /\ Len(jobs[j].assessment_ids) <= 3
        /\ (jobs[j].state = "queued" /\ jobs[j].retries > 0) =>
            /\ Len(jobs[j].assessment_ids) = jobs[j].retries
            /\ assessments[assessment_id(jobs[j])].status = "failed"
        /\ jobs[j].state = "failed" =>
            /\ jobs[j].retries = 2
            /\ Len(jobs[j].assessment_ids) = 3
            /\ \A i \in 1..3 : assessments[jobs[j].assessment_ids[i]].status = "failed"

\* a job failed for good after three attempts, the last of them on a message longer
\* than 500 characters, of which the row keeps 500
C15_Witness ==
    \E j \in 1..Len(jobs) :
        /\ jobs[j].state = "failed"
        /\ Len(jobs[j].assessment_ids) = 3
        /\ Len(assessments[assessment_id(jobs[j])].error_message) = 500

\* C16: every run on an eligible application creates a new RiskAssessment row, and the
\* attempt numbers of the rows of one application strictly increase in the order the
\* rows were created.
C16_AttemptNumbersIncrease ==
    /\ \A j \in 1..Len(jobs) : \A k \in 1..Len(jobs) :
        \A x \in 1..Len(jobs[j].assessment_ids) : \A y \in 1..Len(jobs[k].assessment_ids) :
            (j # k \/ x # y) => jobs[j].assessment_ids[x] # jobs[k].assessment_ids[y]
    /\ \A a \in 1..Len(assessments) : \A b \in 1..Len(assessments) :
        (a < b /\ assessments[a].application_id = assessments[b].application_id) =>
            assessments[a].attempt_number < assessments[b].attempt_number

\* C17: when the bureau pull, or persisting its report, raised in an attempt, the
\* attempt goes on, run_pipeline gets credit_report = None, and the scorers that read
\* the bureau give 50, 50 and 70 with their no-bureau-data factor.
C17_BureauFailureMeansNoReport ==
    \A j \in 1..Len(jobs) :
        jobs[j].bureau \in {"pull_raised", "persist_raised"} =>
            /\ jobs[j].state # "skipped"
            /\ jobs[j].credit_report = NoCreditReport
            /\ _score_credit_history_depth(data, jobs[j].credit_report)
                = Scored(50, <<>>, <<"No credit bureau data available">>, <<>>)
            /\ _score_payment_history(data, jobs[j].credit_report)
                = Scored(50, <<>>, <<"No credit bureau data available">>, <<>>)
            /\ _score_fraud_risk(data, jobs[j].credit_report)
                = Scored(70, <<"No fraud indicators without bureau data">>, <<>>, <<>>)


\* ------------------------------------------------------------------------
\* _check_rate_limit (services/llm_gateway.py lines 125-141) called by several
\* threads of one process: the agents of a run call it from the executor's threads,
\* and nothing locks _rate_limits.  A thread may be preempted between any two of the
\* statements of the function.
\* ------------------------------------------------------------------------

\* how many threads call _check_rate_limit, once each
MaxThreads == 2

\* the last second of the clock
MaxClock == 90

\* the providers of _PROVIDER_CALLERS
Providers == {"openai", "anthropic", "local"}

\* rate_limit_rpm: no limit, and two small limits
RpmValues == {0, 1, 2}

\* [t for t in _rate_limits[provider] if now - t < 60]
Recent(list, now) == SelectSeq(list, LAMBDA t : now - t < 60)

\* a thread outside the function
IdleThread == [pc |-> "idle", now |-> 0, filtered |-> <<>>]

InitRate ==
    /\ pc = "rate_limit"
    /\ use_llm = TRUE
    /\ max_parallel = 4
    /\ agent_instances = <<>>
    /\ data = SoundApplication
    /\ credit_report_data = NoCreditReport
    /\ app_in_db = TRUE
    /\ queue = <<>>
    /\ running = {}
    /\ completion = <<>>
    /\ scorer_idx = 1
    /\ dimension_results = <<>>
    /\ llm_reply = NoReply
    /\ result = NoResult
    /\ application = BureauApplication("app-1", 770, <<>>, NoDeclarations, SalariedEmployment)
    /\ today = 0
    /\ credit_reports = <<>>
    /\ raised = <<>>
    /\ TaskIdle
    /\ clock = 0
    /\ _rate_limits = [p \in Providers |-> <<>>]
    /\ threads = [t \in 1..MaxThreads |-> IdleThread]
    /\ admitted = <<>>
    /\ llm_configs \in {[rate_limit_rpm |-> rpm] : rpm \in RpmValues}
    /\ call = <<>>

\* time passes
Tick ==
    /\ clock < MaxClock
    /\ clock' = clock + 30
    /\ UNCHANGED <<pipeline_vars, bureau_vars, raised, task_vars, _rate_limits, threads,
                   admitted, llm_configs, call>>

\* if rpm <= 0: return True; now = time.time(); a provider absent from _rate_limits
\* gets the empty list
RateEnter(t) ==
    /\ threads[t].pc = "idle"
    /\ IF llm_configs.rate_limit_rpm <= 0
       THEN /\ threads' = [threads EXCEPT ![t].pc = "returned_true"]
            /\ admitted' = Append(admitted, clock)
       ELSE /\ threads' = [threads EXCEPT ![t].pc = "filter", ![t].now = clock]
            /\ UNCHANGED admitted
    /\ UNCHANGED <<pipeline_vars, bureau_vars, raised, task_vars, clock, _rate_limits,
                   llm_configs, call>>

\* the list comprehension reads _rate_limits[provider]
RateFilter(t, provider) ==
    /\ threads[t].pc = "filter"
    /\ threads' = [threads EXCEPT ![t].pc = "store",
                                  ![t].filtered = Recent(_rate_limits[provider], threads[t].now)]
    /\ UNCHANGED <<pipeline_vars, bureau_vars, raised, task_vars, clock, _rate_limits,
                   admitted, llm_configs, call>>

\* _rate_limits[provider] = the new list
RateStore(t, provider) ==
    /\ threads[t].pc = "store"
    /\ _rate_limits' = [_rate_limits EXCEPT ![provider] = threads[t].filtered]
    /\ threads' = [threads EXCEPT ![t].pc = "check"]
    /\ UNCHANGED <<pipeline_vars, bureau_vars, raised, task_vars, clock, admitted,
                   llm_configs, call>>

\* if len(_rate_limits[provider]) >= rpm: return False
RateCheck(t, provider) ==
    /\ threads[t].pc = "check"
    /\ threads' = [threads EXCEPT ![t].pc =
                      IF Len(_rate_limits[provider]) >= llm_configs.rate_limit_rpm
                      THEN "returned_false" ELSE "append"]
    /\ UNCHANGED <<pipeline_vars, bureau_vars, raised, task_vars, clock, _rate_limits,
                   admitted, llm_configs, call>>

\* _rate_limits[provider].append(now); return True
RateAppend(t, provider) ==
    /\ threads[t].pc = "append"
    /\ _rate_limits' = [_rate_limits EXCEPT ![provider] = Append(@, threads[t].now)]
    /\ admitted' = Append(admitted, threads[t].now)
    /\ threads' = [threads EXCEPT ![t].pc = "returned_true"]
    /\ UNCHANGED <<pipeline_vars, bureau_vars, raised, task_vars, clock, llm_configs, call>>

NextRate ==
    \/ Tick
    \/ \E t \in 1..MaxThreads : RateEnter(t)
    \/ \E t \in 1..MaxThreads : RateFilter(t, "openai")
    \/ \E t \in 1..MaxThreads : RateStore(t, "openai")
    \/ \E t \in 1..MaxThreads : RateCheck(t, "openai")
    \/ \E t \in 1..MaxThreads : RateAppend(t, "openai")

SpecRate == InitRate /\ [][NextRate]_vars

\* how often t occurs in list
Occurrences(list, t) == Cardinality({i \in 1..Len(list) : list[i] = t})

\* C18: under concurrent callers the calls admitted within any 60-second window never
\* exceed rpm, and once every caller has returned every admitted call that is younger
\* than 60 seconds is in the provider's list.
C18_RateLimitHolds ==
    llm_configs.rate_limit_rpm > 0 =>
        /\ \A i \in 1..Len(admitted) :
            Cardinality({k \in 1..Len(admitted) :
                            admitted[i] <= admitted[k] /\ admitted[k] - admitted[i] < 60})
                <= llm_configs.rate_limit_rpm
        /\ (\A t \in 1..MaxThreads : threads[t].pc \in {"idle", "returned_true", "returned_false"}) =>
            \A i \in 1..Len(admitted) :
                clock - admitted[i] < 60 =>
                    Occurrences(_rate_limits["openai"], admitted[i])
                        = Occurrences(admitted, admitted[i])


\* ------------------------------------------------------------------------
\* call_llm (services/llm_gateway.py lines 307-400): the primary provider, the
\* fallback providers, and the loop over them
\* ------------------------------------------------------------------------

\* the names call_llm goes through for fallbacks, in its order
FallbackNames == <<"openai", "anthropic", "local">>

\* settings.LLM_PROVIDER: one of the three, or a name of its own
SettingsProviders == {"openai", "vllm"}

\* what the caller of a provider does: it returns, or raises one of the three kinds
\* call_llm catches
CallerOutcomes == {"ok", "HTTPStatusError", "TimeoutException", "Exception"}

\* get_provider_from_db(provider_name): the active row of that provider, or the active
\* default row for None; None when there is no such row
get_provider_from_db(provider_name, configs) ==
    IF provider_name = None THEN configs.default
    ELSE IF provider_name \in configs.active THEN provider_name
    ELSE None

\* config = get_provider_from_db(provider_name) or _get_default_provider()
PrimaryProvider(provider_name, configs) ==
    IF get_provider_from_db(provider_name, configs) = None
    THEN configs.settings_provider
    ELSE get_provider_from_db(provider_name, configs)

\* the active rows among names, in the order of names
ActiveAmong(names, configs) ==
    SelectSeq(names, LAMBDA name : get_provider_from_db(name, configs) # None)

\* a list that keeps the primary's name among the fallbacks
providers_to_try_all(config, fallback, configs) ==
    <<config>> \o (IF fallback THEN ActiveAmong(FallbackNames, configs) ELSE <<>>)

\* providers_to_try = [config] plus, with fallback, the active rows of the names that
\* differ from config.provider
providers_to_try(config, fallback, configs) ==
    <<config>> \o (IF fallback
                   THEN ActiveAmong(SelectSeq(FallbackNames, LAMBDA name : name # config),
                                    configs)
                   ELSE <<>>)

\* _check_rate_limit(provider, rpm) run by one thread at the time now: whether it
\* refuses, and the list it leaves
RateLimited(list, rpm, now) == rpm > 0 /\ Len(Recent(list, now)) >= rpm

AfterRateCheck(list, rpm, now) ==
    IF rpm <= 0 THEN list
    ELSE IF RateLimited(list, rpm, now) THEN Recent(list, now)
    ELSE Append(Recent(list, now), now)

\* no call_llm is running
NoCall ==
    [state |-> "idle", provider_name |-> None, fallback |-> FALSE, providers_to_try |-> <<>>,
     providers_tried |-> <<>>, events |-> <<>>, last_error |-> None]

InitGateway ==
    /\ pc = "call_llm"
    /\ use_llm = TRUE
    /\ max_parallel = 1
    /\ agent_instances = <<>>
    /\ data = SoundApplication
    /\ credit_report_data = NoCreditReport
    /\ app_in_db = TRUE
    /\ queue = <<>>
    /\ running = {}
    /\ completion = <<>>
    /\ scorer_idx = 1
    /\ dimension_results = <<>>
    /\ llm_reply = NoReply
    /\ result = NoResult
    /\ application = BureauApplication("app-1", 770, <<>>, NoDeclarations, SalariedEmployment)
    /\ today = 0
    /\ credit_reports = <<>>
    /\ raised = <<>>
    /\ TaskIdle
    /\ clock = 0
    /\ \E full \in SUBSET {"openai", "anthropic"} :
        _rate_limits = [p \in Providers \cup SettingsProviders |->
                            IF p \in full THEN <<0>> ELSE <<>>]
    /\ threads = <<>>
    /\ admitted = <<>>
    /\ \E active \in SUBSET Providers : \E default \in active \cup {None} :
        \E settings_provider \in SettingsProviders :
            llm_configs = [active |-> active, default |-> default,
                           settings_provider |-> settings_provider, rate_limit_rpm |-> 1]
    /\ call = NoCall

\* call_llm(messages, provider_name, fallback=...) up to the loop
CallLLM(provider_name, fallback) ==
    /\ call.state = "idle"
    /\ call' = [NoCall EXCEPT
                  !.state = "looping",
                  !.provider_name = provider_name,
                  !.fallback = fallback,
                  !.providers_to_try =
                      providers_to_try(PrimaryProvider(provider_name, llm_configs),
                                       fallback, llm_configs)]
    /\ UNCHANGED <<pipeline_vars, bureau_vars, raised, task_vars, clock, _rate_limits,
                   threads, admitted, llm_configs>>

\* one round of the loop, on the next provider: the rate limit check, the caller with
\* its outcome, the return on success, and the RuntimeError after the last provider
TryProvider(outcome) ==
    /\ call.state = "looping"
    /\ LET provider == call.providers_to_try[Len(call.providers_tried) + 1]
           limited == RateLimited(_rate_limits[provider], llm_configs.rate_limit_rpm, clock)
           last == Len(call.providers_tried) + 1 = Len(call.providers_to_try)
       IN /\ _rate_limits' = [_rate_limits EXCEPT ![provider] =
                                 AfterRateCheck(@, llm_configs.rate_limit_rpm, clock)]
          /\ admitted' = IF limited THEN admitted ELSE Append(admitted, clock)
          /\ call' = [call EXCEPT
                        !.providers_tried = Append(@, provider),
                        !.events = Append(@, IF limited THEN "rate_limited"
                                             ELSE IF outcome = "ok" THEN "ok" ELSE "failed"),
                        !.last_error = IF limited THEN "Rate limit exceeded"
                                       ELSE IF outcome = "ok" THEN @ ELSE outcome,
                        !.state = IF ~limited /\ outcome = "ok" THEN "returned"
                                  ELSE IF last THEN "raised" ELSE "looping"]
    /\ UNCHANGED <<pipeline_vars, bureau_vars, raised, task_vars, clock, threads, llm_configs>>

NextGateway ==
    \/ \E provider_name \in {None, "anthropic"} : \E fallback \in BOOLEAN :
        CallLLM(provider_name, fallback)
    \/ \E outcome \in CallerOutcomes : TryProvider(outcome)

SpecGateway == InitGateway /\ [][NextGateway]_vars

\* the place of a name in openai, anthropic, local
FallbackRank(name) == CHOOSE i \in 1..3 : FallbackNames[i] = name

\* C19: call_llm tries the primary first and then, with fallback, the active providers
\* among openai, anthropic and local other than the primary, in that order and each at
\* most once; a rate-limited or failed provider is passed over for the next; the first
\* success is returned; RuntimeError is raised exactly when every provider to try was
\* rate-limited or failed.
C19_FallbackOrder ==
    call.state # "idle" =>
        LET tried == call.providers_tried
            n == Len(tried)
            primary == IF call.provider_name # None /\ call.provider_name \in llm_configs.active
                       THEN call.provider_name
                       ELSE IF call.provider_name = None /\ llm_configs.default # None
                       THEN llm_configs.default
                       ELSE llm_configs.settings_provider
            candidates == IF call.fallback
                          THEN (llm_configs.active \cap Providers) \ {primary}
                          ELSE {}
        IN /\ n >= 1 => tried[1] = primary
           /\ \A i \in 1..n : \A k \in 1..n : i # k => tried[i] # tried[k]
           /\ \A i \in 2..n : tried[i] \in candidates
           /\ \A i \in 2..n : \A k \in 2..n :
                i < k => FallbackRank(tried[i]) < FallbackRank(tried[k])
           /\ \A i \in 2..n : \A c \in candidates :
                FallbackRank(c) < FallbackRank(tried[i]) => \E k \in 2..n : tried[k] = c
           /\ Len(call.events) = n
           /\ \A i \in 1..(n - 1) : call.events[i] # "ok"
           /\ call.state = "returned" <=> (n >= 1 /\ call.events[n] = "ok")
           /\ call.state = "raised" <=>
                /\ n = 1 + Cardinality(candidates)
                /\ \A i \in 1..n : call.events[i] \in {"rate_limited", "failed"}

\* the primary was rate-limited, the second provider failed, the third answered
C19_Witness ==
    /\ call.state = "returned"
    /\ call.events = <<"rate_limited", "failed", "ok">>
    /\ call.providers_tried = <<"openai", "anthropic", "local">>


\* C20: with use_llm=False run_pipeline returns exactly one result for each of the 11
\* entries of DIMENSION_SCORERS, with the entry's DIMENSION_WEIGHTS weight; a scorer
\* that raises gives score 50 with a non-null error and the other scorers still run.
C20_OneResultPerScorer ==
    (pc = "done" /\ ~use_llm) =>
        /\ Len(DimensionNames) = 11
        /\ Len(result.dimension_results) = 11
        /\ \A d \in 1..Len(DimensionNames) :
            \E i \in 1..Len(result.dimension_results) :
                LET r == result.dimension_results[i]
                IN /\ r.dimension_name = DimensionNames[d]
                   /\ r.weight = DIMENSION_WEIGHTS(DimensionNames[d])
                   /\ DIMENSION_SCORERS(DimensionNames[d], data, NoCreditReport).raised =>
                        (r.score = 50 /\ r.error # None)


\* ------------------------------------------------------------------------
\* The executor of run_pipeline on its own: every agent list and worker count, one
\* outcome of each kind per agent, and threads that keep running
\* ------------------------------------------------------------------------

\* max_workers: one worker, fewer workers than agents, the default
ExecutorWorkers == {1, 2, 4}

\* per agent: an output parse_result accepts, a failed call, a crash outside analyze
ExecutorOutcomes(dim) == {CHOOSE o \in LLMOutputs(dim) : TRUE, LLMError, AgentCrash}

InitExecutor ==
    /\ pc = "start"
    /\ use_llm = TRUE
    /\ max_parallel \in ExecutorWorkers
    /\ agent_instances \in AgentLists
    /\ data = SoundApplication
    /\ credit_report_data = NoCreditReport
    /\ app_in_db = TRUE
    /\ queue = <<>>
    /\ running = {}
    /\ completion = [i \in 1..Len(agent_instances) |-> NotCompleted]
    /\ scorer_idx = 1
    /\ dimension_results = <<>>
    /\ llm_reply = NoReply
    /\ result = NoResult
    /\ application = BureauApplication("app-1", 770, <<>>, NoDeclarations, SalariedEmployment)
    /\ today = 0
    /\ credit_reports = <<>>
    /\ OthersIdle

\* some running agent completes
AgentCompletes ==
    \E i \in 1..Len(agent_instances) :
        \E outcome \in ExecutorOutcomes(agent_instances[i].dimension_name) :
            CompleteAgent(i, outcome)

NextExecutor ==
    \/ SubmitAgents
    \/ AgentCompletes
    \/ \E reply \in {ReplyError, Reply(65, "medium", "review", <<>>, 90)} : Aggregate(reply)

\* the executor starts what is submitted, and an agent's analyze() ends: its LLM call
\* returns, fails or times out
SpecExecutor ==
    InitExecutor /\ [][NextExecutor]_vars /\ WF_vars(SubmitAgents) /\ WF_vars(AgentCompletes)

\* the agents whose future is done
Completed == {i \in 1..Len(agent_instances) : completion[i] # NotCompleted}

\* the agents waiting in the executor's queue
Queued == {queue[k] : k \in 1..Len(queue)}

\* at most max_parallel analyses run; every agent is in exactly one of queued, running
\* and completed, with one collected result per completed agent; the aggregation has
\* started only when all of them are completed
ExecutorInvariant ==
    (use_llm /\ pc # "start") =>
        /\ Cardinality(running) <= max_parallel
        /\ Cardinality(Queued) = Len(queue)
        /\ Queued \cup running \cup Completed = 1..Len(agent_instances)
        /\ Queued \cap running = {}
        /\ Queued \cap Completed = {}
        /\ running \cap Completed = {}
        /\ Len(dimension_results) = Cardinality(Completed)
        /\ pc \in {"collected", "done"} => Completed = 1..Len(agent_instances)

\* C21: with use_llm=True never more than max_parallel analyses run at once, every
\* configured agent is eventually run exactly once, and the aggregation starts only
\* after all of them have completed or crashed.
C21_BoundedParallelism ==
    /\ []ExecutorInvariant
    /\ use_llm ~> (pc \in {"collected", "done"} /\ Completed = 1..Len(agent_instances))

\* three agents went through a single worker one after the other and the run returned
C21_Witness ==
    /\ use_llm
    /\ max_parallel = 1
    /\ Len(agent_instances) = 3
    /\ pc = "done"
    /\ Completed = {1, 2, 3}


\* C22: on the AI aggregation path the returned overall_score is the reply's, clamped to
\* [0, 100], and 50 when the reply has none; a risk_band outside low, medium, high,
\* critical is replaced by the band of the clamped score (>= 80 low, >= 60 medium,
\* >= 40 high, else critical), and one of the four is kept as the reply gave it.
C22_ValidatedScoreAndBand ==
    (pc = "done" /\ use_llm /\ ~ReplyRaises(llm_reply)) =>
        LET raw == llm_reply.overall_score
            score == IF raw = AbsentNum THEN 50
                     ELSE IF raw < 0 THEN 0
                     ELSE IF raw > 100 THEN 100
                     ELSE raw
        IN /\ result.overall_score = [n |-> score, d |-> 1]
           /\ result.risk_band =
                IF llm_reply.risk_band \in {"low", "medium", "high", "critical"}
                THEN llm_reply.risk_band
                ELSE IF score >= 80 THEN "low"
                ELSE IF score >= 60 THEN "medium"
                ELSE IF score >= 40 THEN "high"
                ELSE "critical"

\* the reply had an unknown band and a score of 65: the result is "medium" at 65
C22_Witness ==
    /\ pc = "done"
    /\ use_llm
    /\ llm_reply.risk_band = "severe"
    /\ llm_reply.overall_score = 65
    /\ result.risk_band = "medium"


\* C23: every returned PipelineResult has a confidence within [0.0, 1.0] (0..100 in
\* hundredths), on the AI aggregation path, on the aggregator's fallback path and on
\* the use_llm=False path.
C23_ConfidenceInRange ==
    pc = "done" => (result.confidence >= 0 /\ result.confidence <= 100)


\* ------------------------------------------------------------------------
\* _derive_credit_score over its arguments: self-reported scores that are missing,
\* zero, negative, near both ends of the range and beyond it, with every combination
\* of the four declarations
\* ------------------------------------------------------------------------

DeriveScores == {NoneNum, 0, 0 - 5, 1, 310, 340, 700, 845, 900}

DeriveApplications ==
    {BureauApplication(id, credit_score, <<>>, Declarations(b, f, j, d), SalariedEmployment) :
        id \in {"app-1", "app-2", "app-3"}, credit_score \in DeriveScores,
        b \in BOOLEAN, f \in BOOLEAN, j \in BOOLEAN, d \in BOOLEAN}

InitDerive ==
    /\ pc = "bureau"
    /\ use_llm = TRUE
    /\ max_parallel = 1
    /\ agent_instances = <<>>
    /\ data = SoundApplication
    /\ credit_report_data = NoCreditReport
    /\ app_in_db = TRUE
    /\ queue = <<>>
    /\ running = {}
    /\ completion = <<>>
    /\ scorer_idx = 1
    /\ dimension_results = <<>>
    /\ llm_reply = NoReply
    /\ result = NoResult
    /\ application \in DeriveApplications
    /\ today = 0
    /\ credit_reports = <<>>
    /\ OthersIdle

SpecDerive == InitDerive /\ [][NextBureau]_vars

\* the most and the least the declared items take off
MostPenalty(declarations) ==
    (IF declarations.has_bankruptcy THEN 80 ELSE 0)
    + (IF declarations.has_foreclosure THEN 90 ELSE 0)
    + (IF declarations.has_judgments THEN 40 ELSE 0)
    + (IF declarations.has_delinquent_debt THEN 35 ELSE 0)

LeastPenalty(declarations) ==
    (IF declarations.has_bankruptcy THEN 40 ELSE 0)
    + (IF declarations.has_foreclosure THEN 50 ELSE 0)
    + (IF declarations.has_judgments THEN 20 ELSE 0)
    + (IF declarations.has_delinquent_debt THEN 15 ELSE 0)

\* x brought into 300..850
Into300To850(x) == IF x < 300 THEN 300 ELSE IF x > 850 THEN 850 ELSE x

\* C24: the bureau score is within [300, 850]; with a positive self-reported score s it
\* is s plus a variance in -30..15, less an amount in its range for each declared item
\* (bankruptcy 40..80, foreclosure 50..90, judgments 20..40, delinquent debt 15..35),
\* clamped to [300, 850]; without declared items that is [s - 30, s + 15] clamped.
C24_CreditScoreRange ==
    \A i \in 1..Len(credit_reports) :
        LET score == credit_reports[i].credit_score
            s == application.financial_info.credit_score
        IN /\ score >= 300
           /\ score <= 850
           /\ (s # NoneNum /\ s > 0) =>
                /\ score >= Into300To850(s - 30 - MostPenalty(application.declarations))
                /\ score <= Into300To850(s + 15 - LeastPenalty(application.declarations))

\* a self-reported 700 without declared items gave a bureau score in 670..715, and a
\* pull for a self-reported 310 with a bankruptcy came out at the floor of 300
C24_Witness ==
    /\ credit_reports # <<>>
    /\ \/ /\ application.financial_info.credit_score = 700
          /\ application.declarations = NoDeclarations
          /\ credit_reports[1].credit_score >= 670
          /\ credit_reports[1].credit_score <= 715
       \/ /\ application.financial_info.credit_score = 310
          /\ application.declarations.has_bankruptcy
          /\ credit_reports[1].credit_score = 300


\* ------------------------------------------------------------------------
\* _generate_tradelines over the monthly_debts an application can carry
\* ------------------------------------------------------------------------

\* "monthly_debts": None, the value FinancialInfoSchema.model_dump() stores when the
\* applicant gave no monthly debts (schemas/applications.py 62), kept apart from the
\* lists of [key, amount] entries by an entry no dictionary has
NoneDebts == <<Debt(None, NoneNum)>>

\* monthly_debts.items() on None: AttributeError
items_raises(monthly_debts) == monthly_debts = NoneDebts

\* no debts; None; amounts that are zero, negative or no number; one loan; cards and
\* loans; four loans
TradelineDebts ==
    {<<>>,
     NoneDebts,
     <<Debt("car_loan", 0), Debt("other", 0 - 50), Debt("alimony", NotANumber)>>,
     <<Debt("car_loan", 400)>>,
     <<Debt("credit_cards", 300), Debt("student_loans", 250), Debt("other", 0)>>,
     <<Debt("car_loan", 400), Debt("student_loans", 250), Debt("personal_loan", 100),
       Debt("other", 75)>>}

TradelineApplications ==
    {BureauApplication(id, credit_score, monthly_debts, NoDeclarations, SalariedEmployment) :
        id \in {"app-1", "app-2", "app-3"}, credit_score \in {640, 800},
        monthly_debts \in TradelineDebts}

InitTradelines ==
    /\ pc = "bureau"
    /\ use_llm = TRUE
    /\ max_parallel = 1
    /\ agent_instances = <<>>
    /\ data = SoundApplication
    /\ credit_report_data = NoCreditReport
    /\ app_in_db = TRUE
    /\ queue = <<>>
    /\ running = {}
    /\ completion = <<>>
    /\ scorer_idx = 1
    /\ dimension_results = <<>>
    /\ llm_reply = NoReply
    /\ result = NoResult
    /\ application \in TradelineApplications
    /\ today = 0
    /\ credit_reports = <<>>
    /\ OthersIdle

\* pull_credit_report is called: it returns the report, or the exception of
\* _generate_tradelines leaves it
CallPullCreditReport ==
    /\ pc = "bureau"
    /\ Len(credit_reports) + Len(raised) < MaxAttempts
    /\ IF items_raises(application.financial_info.monthly_debts)
       THEN /\ raised' = Append(raised, "AttributeError")
            /\ UNCHANGED credit_reports
       ELSE /\ credit_reports' =
                Append(credit_reports,
                       pull_credit_report(application.id, application.financial_info,
                                          application.employment_info,
                                          application.declarations, today))
            /\ UNCHANGED raised
    /\ UNCHANGED <<pipeline_vars, application, today, idle_vars>>

NextTradelines == CallPullCreditReport \/ DayPasses

SpecTradelines == InitTradelines /\ [][NextTradelines]_vars

\* the entries of monthly_debts that are positive numbers
DeclaredDebts(monthly_debts) ==
    {k \in 1..Len(monthly_debts) :
        IsNumber(monthly_debts[k].amount) /\ monthly_debts[k].amount > 0}

\* the open tradelines come first, at least one and at most three per declared debt, and
\* closed ones follow only to bring the list to three
OpenThenClosed(tradelines, declared) ==
    LET open == {i \in 1..Len(tradelines) : tradelines[i].status = "open"}
    IN /\ \A i \in 1..Len(tradelines) : tradelines[i].status \in {"open", "closed"}
       /\ open = 1..Cardinality(open)
       /\ Cardinality(open) >= declared
       /\ Cardinality(open) <= 3 * declared
       /\ Cardinality(open) < Len(tradelines) => Len(tradelines) = 3

\* C25: _generate_tradelines returns, with at least 3 tradelines, for every input; the
\* tradelines made up to reach 3 are "closed" and those of a declared debt are "open".
C25_AtLeastThreeTradelines ==
    /\ raised = <<>>
    /\ \A i \in 1..Len(credit_reports) :
        /\ Len(credit_reports[i].tradelines) >= 3
        /\ OpenThenClosed(credit_reports[i].tradelines,
                          Cardinality(DeclaredDebts(application.financial_info.monthly_debts)))

\* C26: every tradeline has a payment history of exactly 24 entries, each of OK, 30, 60,
\* 90, CO; the on-time percentage and the late counts are taken over all entries of all
\* tradelines, 24 for each tradeline.
C26_TwentyFourMonths ==
    \A i \in 1..Len(credit_reports) :
        LET tradelines == credit_reports[i].tradelines
        IN /\ \A t \in 1..Len(tradelines) :
                /\ Len(tradelines[t].payment_history_24m) = 24
                /\ \A m \in 1..Len(tradelines[t].payment_history_24m) :
                     tradelines[t].payment_history_24m[m] \in {"OK", "30", "60", "90", "CO"}
           /\ CountPayments(tradelines, {"OK", "30", "60", "90", "CO"}) = 24 * Len(tradelines)


\* ------------------------------------------------------------------------
\* run_risk_assessment (worker/tasks/risk_assessment.py lines 750-996) statement by
\* statement, for the job of one submission: its commits, the events it publishes and
\* the servicer's requests that arrive in between.
\* ------------------------------------------------------------------------

\* no Application row with the id the task was given
NoRow == "no row"

\* application.status not in ("submitted", "under_review") is False
eligible_WithAnyRow(status) == status # NoRow

eligible(status) == status \in {"submitted", "under_review"}

\* valid_decisions of create_decision
valid_decisions == {"approved", "denied", "conditionally_approved"}

\* the PipelineResult of the run, as far as the task stores and publishes it
RunResult == [risk_band |-> "medium", recommendation |-> "review", dimension_results |-> 11]

\* the job with what it has done so far, in order: found is application.status as the
\* task loaded it, seen is app.status as the storing block read it
NewRun ==
    [retries |-> 0, state |-> "queued", assessment_ids |-> <<>>, bureau |-> "none",
     credit_report |-> NoCreditReport, found |-> None, seen |-> None, trace |-> <<>>]

\* session.commit() of the RiskAssessment row with this status
Committed(status, id, dimension_scores) ==
    [kind |-> "commit", channel |-> None, type |-> status, assessment_id |-> id,
     dimension_scores |-> dimension_scores, risk_band |-> None, recommendation |-> None]

\* the call of run_pipeline
PipelineRun(id) ==
    [kind |-> "run_pipeline", channel |-> None, type |-> None, assessment_id |-> id,
     dimension_scores |-> 0, risk_band |-> None, recommendation |-> None]

\* publish_event_sync(channel, {"type": type, "data": {...}})
Published(channel, type, id, risk_band, recommendation) ==
    [kind |-> "publish", channel |-> channel, type |-> type, assessment_id |-> id,
     dimension_scores |-> 0, risk_band |-> risk_band, recommendation |-> recommendation]

\* f"application:{application_id}"
ApplicationChannel == "application:" \o application.id

ServicerChannel == "servicer:notifications"

\* publish_event_sync logs and swallows what Redis raises: the event is then not
\* published
Publish(trace, delivered, event) == IF delivered THEN Append(trace, event) ELSE trace

\* an exception leaves the task outside the try blocks: Celery records the failure and
\* nothing retries
Crashed(job) == Left(job, "crashed")

InitRun ==
    /\ pc = "task"
    /\ use_llm = TRUE
    /\ max_parallel = 1
    /\ agent_instances = <<>>
    /\ data = SoundApplication
    /\ credit_report_data = NoCreditReport
    /\ app_in_db = TRUE
    /\ queue = <<>>
    /\ running = {}
    /\ completion = <<>>
    /\ scorer_idx = 1
    /\ dimension_results = <<>>
    /\ llm_reply = NoReply
    /\ result = NoResult
    /\ application = BureauApplication("app-1", 770, <<>>, NoDeclarations, SalariedEmployment)
    /\ today = 0
    /\ credit_reports = <<>>
    /\ raised = <<>>
    /\ app_status \in {NoRow, "draft", "submitted", "under_review", "withdrawn"}
    /\ jobs = <<NewRun>>
    /\ assessments = <<>>
    /\ clock = 0
    /\ _rate_limits = <<>>
    /\ threads = <<>>
    /\ admitted = <<>>
    /\ llm_configs = <<>>
    /\ call = <<>>

\* lines 766-798: the application is loaded and checked, the RiskAssessment row is
\* added and committed
CreateAssessment(j) ==
    /\ jobs[j].state = "queued"
    /\ IF app_status = NoRow
       THEN /\ jobs' = [jobs EXCEPT ![j].state = "error", ![j].found = app_status]
            /\ UNCHANGED assessments
       ELSE IF ~eligible(app_status)
       THEN /\ jobs' = [jobs EXCEPT ![j].state = "skipped", ![j].found = app_status]
            /\ UNCHANGED assessments
       ELSE /\ assessments' = Append(assessments,
                                     RiskAssessment(application.id, jobs[j].retries))
            /\ jobs' = [jobs EXCEPT ![j] =
                  [@ EXCEPT !.state = "committed",
                            !.found = app_status,
                            !.assessment_ids = Append(@, Len(assessments) + 1),
                            !.trace = Append(@, Committed("in_progress",
                                                          Len(assessments) + 1, 0))]]
    /\ UNCHANGED <<pipeline_vars, bureau_vars, gateway_vars, raised, app_status>>

\* lines 800-804: the status_change event
PublishStarted(j, delivered) ==
    /\ jobs[j].state = "committed"
    /\ jobs' = [jobs EXCEPT ![j] =
          [@ EXCEPT !.state = "notified",
                    !.trace = Publish(@, delivered,
                                      Published(ApplicationChannel, "status_change",
                                                assessment_id(jobs[j]),
                                                None, None))]]
    /\ UNCHANGED <<pipeline_vars, bureau_vars, gateway_vars, raised, app_status, assessments>>

\* lines 806-862: the bureau pull and the CreditReport row, inside try/except; report
\* is what pull_credit_report returns when it returns
BureauStep(j, bureau, report) ==
    /\ jobs[j].state = "notified"
    /\ credit_reports' = IF bureau = "pulled" THEN Append(credit_reports, report)
                         ELSE credit_reports
    /\ jobs' = [jobs EXCEPT ![j].state = "bureau_done", ![j].bureau = bureau]
    /\ UNCHANGED <<pipeline_vars, application, today, gateway_vars, raised, app_status,
                   assessments>>

\* lines 864-866: ApplicationData.from_orm(application), outside every try block
BuildApplicationData(j, returns) ==
    /\ jobs[j].state = "bureau_done"
    /\ jobs' = [jobs EXCEPT ![j] = IF returns THEN [@ EXCEPT !.state = "built"]
                                   ELSE Crashed(@)]
    /\ UNCHANGED <<pipeline_vars, bureau_vars, gateway_vars, raised, app_status, assessments>>

\* lines 876-893: run_pipeline returns, or raises and the row is set to failed
RunPipeline(j, exc) ==
    /\ jobs[j].state = "built"
    /\ IF exc = None
       THEN /\ jobs' = [jobs EXCEPT ![j] =
                  [@ EXCEPT !.state = "piped",
                            !.trace = Append(@, PipelineRun(assessment_id(jobs[j])))]]
            /\ UNCHANGED assessments
       ELSE /\ assessments' = [assessments EXCEPT ![assessment_id(jobs[j])] =
                                  [@ EXCEPT !.status = "failed",
                                            !.error_message = str_500(exc)]]
            /\ jobs' = [jobs EXCEPT ![j] =
                  retry([@ EXCEPT !.trace =
                            @ \o <<PipelineRun(assessment_id(jobs[j])),
                                   Committed("failed", assessment_id(jobs[j]), 0)>>])]
    /\ UNCHANGED <<pipeline_vars, bureau_vars, gateway_vars, raised, app_status>>

\* lines 895-945: the dimension scores are added, the row is filled in and the
\* application is read; an exception here (round() or Decimal() on what the pipeline
\* returned, the database) rolls the session back and leaves the task
StoreResults(j, returns) ==
    /\ jobs[j].state = "piped"
    /\ jobs' = [jobs EXCEPT ![j] = IF returns
                                   THEN [@ EXCEPT !.state = "read", !.seen = app_status]
                                   ELSE Crashed(@)]
    /\ UNCHANGED <<pipeline_vars, bureau_vars, gateway_vars, raised, app_status, assessments>>

\* lines 945-948: `if app.status == "submitted": app.status = "under_review"` on the
\* row as it was read, and session.commit()
CommitResults(j, returns) ==
    /\ jobs[j].state = "read"
    /\ IF returns
       THEN /\ assessments' = [assessments EXCEPT ![assessment_id(jobs[j])].status = "completed"]
            /\ app_status' = IF jobs[j].seen = "submitted" THEN "under_review" ELSE app_status
            /\ jobs' = [jobs EXCEPT ![j] =
                  [@ EXCEPT !.state = "stored",
                            !.trace = Append(@, Committed("completed", assessment_id(jobs[j]),
                                                          RunResult.dimension_results))]]
       ELSE /\ jobs' = [jobs EXCEPT ![j] = Crashed(@)]
            /\ UNCHANGED <<assessments, app_status>>
    /\ UNCHANGED <<pipeline_vars, bureau_vars, gateway_vars, raised>>

\* lines 953-963: assessment_complete on the application's channel
PublishComplete(j, delivered) ==
    /\ jobs[j].state = "stored"
    /\ jobs' = [jobs EXCEPT ![j] =
          [@ EXCEPT !.state = "told",
                    !.trace = Publish(@, delivered,
                                      Published(ApplicationChannel, "assessment_complete",
                                                assessment_id(jobs[j]),
                                                RunResult.risk_band,
                                                RunResult.recommendation))]]
    /\ UNCHANGED <<pipeline_vars, bureau_vars, gateway_vars, raised, app_status, assessments>>

\* lines 965-996: assessment_complete on the servicers' channel, and the return
PublishToServicers(j, delivered) ==
    /\ jobs[j].state = "told"
    /\ jobs' = [jobs EXCEPT ![j] =
          [Left(@, "succeeded") EXCEPT
                !.trace = Publish(@, delivered,
                                  Published(ServicerChannel, "assessment_complete",
                                            assessment_id(jobs[j]),
                                            RunResult.risk_band,
                                            RunResult.recommendation))]]
    /\ UNCHANGED <<pipeline_vars, bureau_vars, gateway_vars, raised, app_status, assessments>>

\* POST /applications/{id}/request-info (routes/decisions.py lines 445-480)
request_additional_info ==
    /\ app_status \notin {NoRow, "approved", "denied", "withdrawn"}
    /\ app_status' = "additional_info_requested"
    /\ UNCHANGED <<pipeline_vars, bureau_vars, gateway_vars, raised, jobs, assessments>>

\* a step of the task
RunStep ==
    \E j \in 1..Len(jobs) :
        \/ CreateAssessment(j)
        \/ \E delivered \in BOOLEAN : PublishStarted(j, delivered)
        \/ \E bureau \in BureauOutcomes : BureauStep(j, bureau, CleanReport)
        \/ \E returns \in BOOLEAN : BuildApplicationData(j, returns)
        \/ \E exc \in PipelineExceptions \cup {None} : RunPipeline(j, exc)
        \/ \E returns \in BOOLEAN : StoreResults(j, returns)
        \/ \E returns \in BOOLEAN : CommitResults(j, returns)
        \/ \E delivered \in BOOLEAN : PublishComplete(j, delivered)
        \/ \E delivered \in BOOLEAN : PublishToServicers(j, delivered)

NextRun ==
    \/ RunStep
    \/ \E decision \in valid_decisions : create_decision(decision)
    \/ request_additional_info

\* the worker goes on with a task it has taken
SpecRun == InitRun /\ [][NextRun]_vars /\ WF_vars(RunStep)

\* the positions of the entries of trace of this kind, type and channel
Entries(trace, kind, type, channel) ==
    {k \in 1..Len(trace) : /\ trace[k].kind = kind
                           /\ trace[k].type = type
                           /\ trace[k].channel = channel}

\* an entry of this kind and type for assessment id stands before position k
Before(trace, k, kind, type, id) ==
    \E i \in 1..(k - 1) : /\ trace[i].kind = kind
                          /\ trace[i].type = type
                          /\ trace[i].assessment_id = id

\* C27: the status_change event of an attempt is published after its in_progress row is
\* committed and before run_pipeline is called; assessment_complete events (on the
\* application's channel, then on the servicers', with risk_band and recommendation) are
\* published only after the dimension scores and the completed row are committed; an
\* attempt whose pipeline raised, or that was skipped, publishes no assessment_complete.
C27_EventsFollowCommits ==
    \A j \in 1..Len(jobs) :
        LET trace == jobs[j].trace
            started == Entries(trace, "publish", "status_change", ApplicationChannel)
            told == Entries(trace, "publish", "assessment_complete", ApplicationChannel)
            servicers == Entries(trace, "publish", "assessment_complete", ServicerChannel)
        IN /\ \A k \in 1..Len(trace) :
                trace[k].kind = "publish" => k \in started \cup told \cup servicers
           /\ \A k \in started :
                /\ Before(trace, k, "commit", "in_progress", trace[k].assessment_id)
                /\ ~Before(trace, k, "run_pipeline", None, trace[k].assessment_id)
           /\ \A k \in told \cup servicers :
                /\ trace[k].risk_band = RunResult.risk_band
                /\ trace[k].recommendation = RunResult.recommendation
                /\ \E i \in 1..(k - 1) :
                     /\ trace[i] = Committed("completed", trace[k].assessment_id, 11)
                /\ ~\E i \in 1..Len(trace) :
                     trace[i] = Committed("failed", trace[k].assessment_id, 0)
                /\ assessments[trace[k].assessment_id].status = "completed"
           /\ \A k \in servicers : \A i \in told :
                trace[i].assessment_id = trace[k].assessment_id => i < k
           /\ jobs[j].state \in {"skipped", "error", "failed", "crashed", "queued"} =>
                told \cup servicers = {}

\* the second attempt of a job, after a first one whose pipeline raised, published its
\* three events in order around its commits
C27_Witness ==
    \E j \in 1..Len(jobs) :
        /\ jobs[j].state = "succeeded"
        /\ jobs[j].retries = 1
        /\ jobs[j].trace =
            <<Committed("in_progress", 1, 0),
              Published(ApplicationChannel, "status_change", 1, None, None),
              PipelineRun(1),
              Committed("failed", 1, 0),
              Committed("in_progress", 2, 0),
              Published(ApplicationChannel, "status_change", 2, None, None),
              PipelineRun(2),
              Committed("completed", 2, 11),
              Published(ApplicationChannel, "assessment_complete", 2, "medium", "review"),
              Published(ServicerChannel, "assessment_complete", 2, "medium", "review")>>


\* some RiskAssessment row is in_progress
InProgress == \E a \in 1..Len(assessments) : assessments[a].status = "in_progress"

\* C28: every RiskAssessment row created in_progress eventually reaches completed or
\* failed, whatever fails after its commit (the bureau, ApplicationData, the pipeline,
\* storing the dimension scores or the result).
C28_InProgressEnds == InProgress ~> ~InProgress

\* C29: the task changes the application's status only from "submitted" to
\* "under_review"; whatever the interleaving with create_decision and
\* request_additional_info, it never overwrites a status the servicer has set.
C29_OnlySubmittedToUnderReview ==
    [][(jobs' # jobs /\ app_status' # app_status) =>
            (app_status = "submitted" /\ app_status' = "under_review")]_vars

\* C30: on an application that does not exist or whose status is not submitted or
\* under_review, run_risk_assessment returns error or skipped and changes nothing: no
\* RiskAssessment or CreditReport row, no event, no pipeline run, no status change.
C30_SkippedRunChangesNothing ==
    [][\A j \in 1..Len(jobs) :
          (jobs[j].state = "queued" /\ jobs'[j] # jobs[j]
           /\ app_status \notin {"submitted", "under_review"}) =>
              /\ jobs'[j].state = IF app_status = NoRow THEN "error" ELSE "skipped"
              /\ jobs'[j].trace = jobs[j].trace
              /\ jobs'[j].assessment_ids = jobs[j].assessment_ids
              /\ UNCHANGED <<app_status, assessments, credit_reports>>]_vars

\* a first run found a draft and was skipped, and there is no row, no report, no event
C30_Witness ==
    \E j \in 1..Len(jobs) :
        /\ jobs[j].state = "skipped"
        /\ jobs[j].found = "draft"
        /\ app_status = "draft"
        /\ jobs[j].trace = <<>>
        /\ assessments = <<>>
        /\ credit_reports = <<>>

====
